---- MODULE Spec2Model ----
(***************************************************************************)
(* Model of wineyard-runtime's package resolver (PackagesResolver::build)  *)
(* and of the content-addressed ResourceStore it fills.                    *)
(*                                                                         *)
(* Strings are sequences of tokens.  A token is one of the separator       *)
(* characters ":", "/", "\\" or an atom (a run of other characters such    *)
(* as "http", "h", "A", ".", "..", "package.json").  Every string          *)
(* operation of the source (replace, split, split_once, ends_with,         *)
(* strip_suffix, join) is modelled on such sequences.                      *)
(***************************************************************************)
EXTENDS Integers, Sequences, FiniteSets, TLC

(***************************************************************************)
(* String helpers (str::starts_with, ends_with, replace, split, join).     *)
(* The recursive ones are functions, so that their arguments are values.   *)
(***************************************************************************)
Tokens ==
    { ":", "/", "\\", ".", "..", "http", "h", "A", "B", "f", "g", "package.json" }

Strings == Seq(Tokens)

StartsWith(s, p) ==
    /\ Len(s) >= Len(p)
    /\ SubSeq(s, 1, Len(p)) = p

EndsWith(s, p) ==
    /\ Len(s) >= Len(p)
    /\ SubSeq(s, Len(s) - Len(p) + 1, Len(s)) = p

\* str::replace: every non-overlapping match of pat, scanning left to right.
Replace[s \in Strings, pat \in Strings, rep \in Strings] ==
    IF s = << >> THEN << >>
    ELSE IF StartsWith(s, pat)
         THEN rep \o Replace[SubSeq(s, Len(pat) + 1, Len(s)), pat, rep]
         ELSE << Head(s) >> \o Replace[Tail(s), pat, rep]

\* Index of the first match of pat in s at or after i, 0 when there is none.
Find[s \in Strings, pat \in Strings, i \in Nat] ==
    IF i + Len(pat) - 1 > Len(s) THEN 0
    ELSE IF SubSeq(s, i, i + Len(pat) - 1) = pat THEN i
         ELSE Find[s, pat, i + 1]

\* str::split('/'): the sequence of (possibly empty) pieces between slashes.
Split[s \in Strings] ==
    IF Find[s, << "/" >>, 1] = 0 THEN << s >>
    ELSE << SubSeq(s, 1, Find[s, << "/" >>, 1] - 1) >>
         \o Split[SubSeq(s, Find[s, << "/" >>, 1] + 1, Len(s))]

\* [&str]::join("/")
Join[parts \in Seq(Strings)] ==
    IF Len(parts) = 0 THEN << >>
    ELSE IF Len(parts) = 1 THEN parts[1]
         ELSE parts[1] \o << "/" >> \o Join[Tail(parts)]

SchemeSep == << ":", "/", "/" >>

\* The while loop of normalize_url: drop a part that is followed by "..",
\* together with that "..", and always keep the last part.
CleanParts[url \in Seq(Strings), i \in Nat] ==
    IF i < Len(url)
    THEN IF url[i + 1] = << ".." >>
         THEN CleanParts[url, i + 2]
         ELSE << url[i] >> \o CleanParts[url, i + 1]
    ELSE << url[Len(url)] >>

\* The part of normalize_url after the scheme was split off.
NormalizePath[rest \in Strings] ==
    Join[CleanParts[
        Split[Replace[
                Replace[Replace[rest, << "\\" >>, << "/" >>],
                        << "/", ".", "/" >>, << "/" >>],
                << "/", "/" >>, << "/" >>]],
        1]]

normalize_url(u) ==
    LET at == Find[u, SchemeSep, 1]
    IN  IF at = 0
        THEN NormalizePath[u]
        ELSE SubSeq(u, 1, at - 1) \o SchemeSep \o NormalizePath[SubSeq(u, at + 3, Len(u))]

(***************************************************************************)
(* Option<T> is a sequence of length at most one: << >> is None.           *)
(***************************************************************************)
None == << >>
Some(v) == << v >>

Restrict(f, S) == [k \in S |-> f[k]]

\* All orders in which the keys of a HashMap / HashSet can be iterated.
Orders(S) ==
    { o \in [1..Cardinality(S) -> S] : \A i, j \in 1..Cardinality(S) : o[i] = o[j] => i = j }

(***************************************************************************)
(* The network: what the server answers for each URL.  Two package         *)
(* manifests (A and B), one plain file f and one archive g.                *)
(***************************************************************************)
Http == << "http", ":", "/", "/" >>
UrlA     == Http \o << "h", "/", "A" >>
UrlAJson == Http \o << "h", "/", "A", "/", "package.json" >>
UrlB     == Http \o << "h", "/", "B" >>
UrlBJson == Http \o << "h", "/", "B", "/", "package.json" >>
UrlF     == Http \o << "h", "/", "f" >>
UrlG     == Http \o << "h", "/", "g" >>

NotFound == "NotFound"

Serve(url) ==
    CASE url = UrlAJson -> "mA"
      [] url = UrlBJson -> "mB"
      [] url = UrlF     -> "cf"
      [] url = UrlG     -> "cg"
      [] OTHER          -> NotFound

ManifestContents == { "mA", "mB" }
ArchiveContents  == { "cg" }

\* The directory tree an archive extracts to.
Extracted(c) == IF c = "cg" THEN "dg" ELSE "empty"

\* seahash of a content (Hash::for_slice, hash_file, and the XOR fold over a
\* directory tree): distinct contents have distinct hashes.
SeaHash(c) ==
    CASE c = "mA"  -> 1
      [] c = "mB"  -> 2
      [] c = "cf"  -> 3
      [] c = "cg"  -> 4
      [] c = "dg"  -> 5
      [] c = "bad" -> 6
      [] c = "k1"  -> 8
      [] c = "k2"  -> 9
      [] OTHER     -> 7

\* A declared hash that none of the served contents has.
WrongHash == SeaHash("none")

\* metadata().len() of a store entry.
SizeOf(c) ==
    CASE c = "mA"  -> 10
      [] c = "mB"  -> 11
      [] c = "cf"  -> 12
      [] c = "cg"  -> 13
      [] c = "dg"  -> 14
      [] OTHER     -> 0

\* Hash::for_entry of a filesystem entry.
for_entry(entry) == SeaHash(entry.content)

File(c) == [kind |-> "file", content |-> c]
Dir(c)  == [kind |-> "dir", content |-> c]

(***************************************************************************)
(* ResourceInfo values the manifests are drawn from.                       *)
(***************************************************************************)
Info(uri, format, hash) == [uri |-> uri, format |-> format, hash |-> hash]

RelA == << "..", "/", "A" >>
RelB == << "..", "/", "B" >>
RelF == << "..", "/", "f" >>
RelG == << "..", "/", "g" >>

PackageRefsOfA ==
    { Info(RelB, "package", None),
      Info(RelB, "package", Some(SeaHash("mB"))) }

PackageRefsOfB ==
    { Info(RelA, "package", None),
      Info(RelA, "package", Some(SeaHash("mA"))),
      Info(UrlBJson, "package", None) }

InputRefsOfA ==
    { Info(RelF, "file", None),
      Info(RelF, "file", Some(SeaHash("cf"))),
      Info(RelF, "file", Some(WrongHash)) }

OutputRefsOfA ==
    { Info(RelF, "module/luau", None),
      Info(RelG, "archive/tar", Some(SeaHash("dg"))),
      Info(RelG, "archive/tar", Some(WrongHash)) }

InputRefsOfB ==
    { Info(RelF, "file", None),
      Info(RelF, "file", Some(SeaHash("cf"))) }

EmptyMap == << >>

\* The HashMaps with at most the key `name`, its value drawn from pool.
Slot(name, pool) == { EmptyMap } \cup { name :> r : r \in pool }

\* Package A always depends on package B and on the file f; it may export a
\* module or an archive.  Package B may depend on A (a cycle), on itself, and
\* on the file f.
Manifests ==
    { [mA |-> [inputs |-> b @@ x, outputs |-> o],
       mB |-> [inputs |-> a @@ y, outputs |-> EmptyMap]] :
        b \in Slot("b", PackageRefsOfA) \ { EmptyMap },
        x \in Slot("x", InputRefsOfA) \ { EmptyMap },
        o \in Slot("o", OutputRefsOfA),
        a \in Slot("a", PackageRefsOfB), y \in Slot("x", InputRefsOfB) }

RootSets == { {}, { UrlA }, { UrlA, UrlAJson }, { UrlA, UrlB } }

\* What the store folder may hold before the build: nothing, the file f, or
\* B's manifest from an earlier build next to a damaged entry under f's hash.
InitialStores ==
    { EmptyMap,
      SeaHash("cf") :> File("cf"),
      (SeaHash("cf") :> File("bad")) @@ (SeaHash("mB") :> File("mB")) }

\* How often the same root set is built.
MaxRuns == 2

\* More requests than one build can issue here (two manifests, f as a file
\* and as a module, g): the guard only stops a build that requests forever.
MaxDownloads == 6

VARIABLES
    manifests,                \* the text served for each manifest content
    root_packages,            \* PackagesResolver::root_packages
    store0,                   \* the store folder before the first build
    store,                    \* final entries of the store: hash -> entry
    temps,                    \* `<hash>.tmp` entries of the store
    packages,
    lock_resources,
    lock_root,
    requested_urls,
    resources_indexes,
    assigned_hashes,
    assign_references,
    packages_download_tasks,
    resources,
    resources_download_tasks,
    next_temp,                \* the next value Hash::rand() returns
    downloads,                \* the requests handed to the downloader
    pc,
    result,                   \* Ok(LockFile) or Err(..) once build returned
    validated,                \* the last answer of ResourceStore::validate
    run,
    first                     \* the outcome of the first build

\* PackagesEngine::create
VARIABLES
    engine_lock_file,         \* `lock_file`: the lock file handed to create
    engine_resources,         \* `resources`: the stack of (key, parent_context)
    visited_resources,
    evaluation_queue,
    resources_table,          \* the engine's `resources` lua table
    engine_pc,
    instantiated,             \* the resources the drain built, in its order
    evaluated,                \* the modules whose chunk was called, in order
    last_call                 \* the last load/import call of a module

engine == << engine_lock_file, engine_resources, visited_resources, evaluation_queue,
             resources_table, engine_pc, instantiated, evaluated, last_call >>

\* SyncAPI
VARIABLES
    sync_channels_consumers,  \* key => handles
    sync_channels_data,       \* handle => (key, data)
    sync_mutex_consumers,     \* handle => key
    sync_mutex_locks,         \* key => curr_lock_handle
    sync_result,              \* what the last call of the API returned
    mutex_calls,              \* thread => the lock call it is inside of
    opened,                   \* handle => the key it was opened on, and when
    sent,                     \* how many messages send has accepted
    expected                  \* handle => the messages it is still to receive

sync == << sync_channels_consumers, sync_channels_data, sync_mutex_consumers,
           sync_mutex_locks, sync_result, mutex_calls, opened, sent, expected >>

\* Builds that share one store.
VARIABLES
    builds,                   \* build => where it is with its resource
    committed                 \* build => the hashes it moved into the store

concurrent == << builds, committed >>

\* Downloader::download_with_options and the script's downloader.wait
VARIABLES
    download_options,         \* DownloadOptions, and the callbacks of the script
    output_file,              \* the output file on disk and the BufWriter on it
    current,
    total,
    aborted,
    download_task,            \* the spawned task: where it is, what it returned
    response,                 \* what the server answered
    waiter                    \* the script thread: where it is in its call

network == << download_options, output_file, current, total, aborted,
              download_task, response, waiter >>

\* A value that is converted, and converted again.
VARIABLES
    value_in,                 \* the value handed to the conversion
    value_mid,                \* what the first conversion made of it
    value_out                 \* what the second conversion made of that

conversion == << value_in, value_mid, value_out >>

\* archive.extract of the archives API and the worker thread it spawns
VARIABLES
    archive_entries,          \* the sizes of the files the archive lists
    extract_worker,           \* the worker: the next line it reads, `current`
    progress_channel,         \* the mpsc channel of (curr, total, diff)
    emitted,                  \* every event the worker has sent, in order
    extract_call              \* archive_extract: where it is, what it called

extraction == << archive_entries, extract_worker, progress_channel, emitted,
                 extract_call >>

\* What a build of the resolver never touches.
elsewhere == << engine, sync, concurrent, network, conversion, extraction >>

world   == << manifests, root_packages, store0, elsewhere >>
fs      == << store, temps >>
builder == << packages, lock_resources, lock_root, requested_urls,
              resources_indexes, assigned_hashes, assign_references,
              packages_download_tasks, resources, resources_download_tasks,
              next_temp, downloads >>
vars    == << world, fs, builder, pc, result, validated, run, first >>

NoResult == [kind |-> "none"]

NoCall == [fn |-> "none"]

\* No engine is being created.
EngineIdle ==
    /\ engine_lock_file = [root |-> << >>, resources |-> << >>]
    /\ engine_resources = << >>
    /\ visited_resources = {}
    /\ evaluation_queue = << >>
    /\ resources_table = << >>
    /\ engine_pc = "none"
    /\ instantiated = << >>
    /\ evaluated = << >>
    /\ last_call = NoCall

\* No module has called the sync API.
SyncIdle ==
    /\ sync_channels_consumers = << >>
    /\ sync_channels_data = << >>
    /\ sync_mutex_consumers = << >>
    /\ sync_mutex_locks = << >>
    /\ sync_result = NoCall
    /\ mutex_calls = << >>
    /\ opened = << >>
    /\ sent = 0
    /\ expected = << >>

\* No second build runs.
ConcurrentIdle ==
    /\ builds = << >>
    /\ committed = << >>

\* No download was started.
NetworkIdle ==
    /\ download_options = << >>
    /\ output_file = << >>
    /\ current = 0
    /\ total = 0
    /\ aborted = FALSE
    /\ download_task = << >>
    /\ response = << >>
    /\ waiter = << >>

\* Nothing is being converted.
ConversionIdle ==
    /\ value_in = << >>
    /\ value_mid = << >>
    /\ value_out = << >>

\* No archive is being extracted.
ExtractionIdle ==
    /\ archive_entries = << >>
    /\ extract_worker = << >>
    /\ progress_channel = << >>
    /\ emitted = << >>
    /\ extract_call = << >>

ElsewhereIdle ==
    /\ EngineIdle /\ SyncIdle /\ ConcurrentIdle /\ NetworkIdle /\ ConversionIdle
    /\ ExtractionIdle

BuilderReset ==
    /\ packages = {}
    /\ lock_resources = << >>
    /\ lock_root = {}
    /\ requested_urls = {}
    /\ resources_indexes = EmptyMap
    /\ assigned_hashes = EmptyMap
    /\ assign_references = << >>
    /\ packages_download_tasks = << >>
    /\ resources = << >>
    /\ resources_download_tasks = << >>
    /\ next_temp = 1
    /\ downloads = << >>

Init ==
    /\ manifests \in Manifests
    /\ root_packages \in RootSets
    /\ store0 \in InitialStores
    /\ store = store0
    /\ temps = EmptyMap
    /\ BuilderReset
    /\ pc = "idle"
    /\ result = NoResult
    /\ validated = None
    /\ run = 1
    /\ first = NoResult
    /\ ElsewhereIdle

(***************************************************************************)
(* ResourceStore                                                           *)
(***************************************************************************)
has_resource(s, hash) == hash \in DOMAIN s

\* std::fs::rename of a regular file onto `path(hash)`: fails when the
\* target is a directory.
CanRenameFile(s, hash) == hash \in DOMAIN s => s[hash].kind = "file"

\* Insert into a HashMap (an existing key is overwritten).
Insert(m, k, v) == (k :> v) @@ m

\* download_with_options opens `<temp hash>.tmp` with create(true): the file
\* is there, empty, until the body is written to it.
Created(t, temp_path) == Insert(t, temp_path, File("empty"))

\* std::fs::rename(temp_path, ..) seen from the temp entries, and
\* std::fs::remove_file(temp_path): the temp entry is gone.
rename_Copies(t, temp_path) == t

rename(t, temp_path) == [p \in DOMAIN t \ { temp_path } |-> t[p]]

remove_file_Skipped(t, temp_path) == t

remove_file(t, temp_path) == [p \in DOMAIN t \ { temp_path } |-> t[p]]

\* Mutation: the temp entry is never moved to its final path.
Commit_Forgotten(s, hash, entry) == s

\* std::fs::rename(temp, store.get_path(&hash)): the entry becomes the content
\* of `path(hash)`, replacing what was there.
Commit(s, hash, entry) == Insert(s, hash, entry)

\* `let lock_resource_index = lock_resources.len()`: ids count from 0.
NextIndex(locks) == Len(locks)

\* Mutation: the index is taken after the push instead of before it.
SaveIndex_AfterPush(indexes, unique_key, index) ==
    Insert(indexes, unique_key, index + 1)

\* `resources_indexes.insert(unique_key, lock_resource_index)`
SaveIndex(indexes, unique_key, index) == Insert(indexes, unique_key, index)

\* Mutation: pending packages are never recognised as requested.
PackageRequested_Never(keys, unique_key) == FALSE

\* `requested_urls.contains(&unique_key)` in the packages loop.
PackageRequested(keys, unique_key) == unique_key \in keys

\* Mutation: resources are never recognised as requested.
ResourceRequested_Never(keys, unique_key) == FALSE

\* `requested_urls.contains(&unique_key)` in the resources loop.
ResourceRequested(keys, unique_key) == unique_key \in keys

\* Which stage of the outer loop runs next, given the queues.
StageAfter(stage, pkgs, ptasks, res, rtasks) ==
    LET fromResources == IF rtasks # << >> THEN "ingest_resources"
                         ELSE IF pkgs # {} THEN "drain" ELSE "patch"
        fromDispatch  == IF res # << >> THEN "dispatch" ELSE fromResources
        fromPackages  == IF ptasks # << >> THEN "ingest_packages" ELSE fromDispatch
        fromDrain     == IF pkgs # {} THEN "drain" ELSE fromPackages
    IN  CASE stage = "start"            -> IF pkgs # {} THEN "drain" ELSE "patch"
          [] stage = "drain"            -> fromDrain
          [] stage = "ingest_packages"  -> fromPackages
          [] stage = "dispatch"         -> fromDispatch
          [] stage = "ingest_resources" -> fromResources

Fail(err) ==
    /\ pc' = "failed"
    /\ result' = [kind |-> "err", error |-> err]


(***************************************************************************)
(* PackagesResolver::build                                                 *)
(***************************************************************************)

\* The set of root packages gets one random temp hash per URL (temp hashes are
\* fresh values; which URL gets which is immaterial, the drain order is free).
BuildStart ==
    /\ pc = "idle"
    /\ LET o == CHOOSE o \in Orders(root_packages) : TRUE
       IN  packages' = { [url |-> o[i], temp_hash |-> i, is_root |-> TRUE] :
                            i \in 1..Cardinality(root_packages) }
    /\ next_temp' = Cardinality(root_packages) + 1
    /\ pc' = StageAfter("start", packages', << >>, << >>, << >>)
    /\ validated' = None
    /\ UNCHANGED << world, fs, lock_resources, lock_root, requested_urls,
                    resources_indexes, assigned_hashes, assign_references,
                    packages_download_tasks, resources,
                    resources_download_tasks, downloads, result, run, first >>

PackageJson == << "/", "package.json" >>

\* The URL a pending package is downloaded from.
PackageUrl(url) ==
    normalize_url(IF EndsWith(url, PackageJson) THEN url ELSE url \o PackageJson)

\* strip_suffix("package.json"), the URL itself when it has no such suffix.
RootUrl(package_url) ==
    IF EndsWith(package_url, << "package.json" >>)
    THEN SubSeq(package_url, 1, Len(package_url) - 1)
    ELSE package_url

\* One turn of `for ... in packages.drain()`: any pending package may come next.
DrainPackage ==
    /\ pc = "drain"
    /\ Len(downloads) < MaxDownloads
    /\ \E p \in packages :
        LET package_url == PackageUrl(p.url)
            unique_key  == << package_url, "package" >>
            task        == [temp_path   |-> p.temp_hash,
                            package_url |-> package_url,
                            root_url    |-> RootUrl(package_url),
                            unique_key  |-> unique_key,
                            is_root     |-> p.is_root]
            known       == PackageRequested(requested_urls, unique_key)
            tasks       == IF known THEN packages_download_tasks
                           ELSE Append(packages_download_tasks, task)
        IN  /\ packages' = packages \ { p }
            /\ assigned_hashes' = Insert(assigned_hashes, p.temp_hash, unique_key)
            /\ requested_urls' = IF known THEN requested_urls
                                 ELSE requested_urls \cup { unique_key }
            /\ packages_download_tasks' = tasks
            /\ downloads' = IF known THEN downloads
                            ELSE Append(downloads, unique_key)
            /\ temps' = IF known THEN temps ELSE Created(temps, p.temp_hash)
            /\ pc' = StageAfter("drain", packages \ { p }, tasks,
                                resources, resources_download_tasks)
    /\ UNCHANGED << world, store, lock_resources, lock_root, resources_indexes,
                    assign_references, resources, resources_download_tasks,
                    next_temp, result, validated, run, first >>

\* The entries pushed for the inputs (or outputs) of a manifest, iterated in
\* the order `names`, with temp hashes from..from+Len(names)-1.
References(names, from, index, is_input) ==
    [i \in 1..Len(names) |->
        [temp_hash |-> from + i - 1, name |-> names[i],
         index |-> index, is_input |-> is_input]]

Queued(names, map, from, root_url) ==
    [i \in 1..Len(names) |->
        [temp_hash |-> from + i - 1, root_url |-> root_url,
         resource |-> map[names[i]]]]

PackageLock(url, content, manifest) ==
    [url     |-> url,
     format  |-> "package",
     lock    |-> [hash |-> SeaHash(content), size |-> SizeOf(content)],
     inputs  |-> Some(EmptyMap),
     outputs |-> Some(EmptyMap)]

InsertRoot_Never(roots, is_root, index) == roots

\* `if is_root { lock_root.insert(lock_resource_index as u32); }`
InsertRoot(roots, is_root, index) ==
    IF is_root THEN roots \cup { index } ELSE roots

\* One turn of `for ... in packages_download_tasks.drain(..)`.
IngestPackage ==
    /\ pc = "ingest_packages"
    /\ LET task    == Head(packages_download_tasks)
           content == Serve(task.package_url)
           hash    == SeaHash(content)
           index   == NextIndex(lock_resources)
       IN  IF content = NotFound
           THEN \* context.wait() fails; the output file was created empty.
                /\ Fail([type |-> "DownloaderError"])
                /\ temps' = Insert(temps, task.temp_path, File("empty"))
                /\ UNCHANGED << store, builder >>
           ELSE IF content \notin ManifestContents
           THEN \* toml::from_str or PackageManifest::try_from fails.
                /\ Fail([type |-> "PackageManifestError"])
                /\ temps' = Insert(temps, task.temp_path, File(content))
                /\ UNCHANGED << store, builder >>
           ELSE IF ~CanRenameFile(store, hash)
           THEN /\ Fail([type |-> "Io"])
                /\ temps' = Insert(temps, task.temp_path, File(content))
                /\ UNCHANGED << store, builder >>
           ELSE \E ins \in Orders(DOMAIN manifests[content].inputs),
                   outs \in Orders(DOMAIN manifests[content].outputs) :
                LET manifest == manifests[content]
                    n_in     == Len(ins)
                    n_out    == Len(outs)
                IN  /\ resources_indexes' =
                            SaveIndex(resources_indexes, task.unique_key, index)
                    /\ lock_resources' = Append(lock_resources,
                            PackageLock(task.package_url, content, manifest))
                    /\ lock_root' = InsertRoot(lock_root, task.is_root, index)
                    /\ assign_references' = assign_references
                            \o References(ins, next_temp, index, TRUE)
                            \o References(outs, next_temp + n_in, index, FALSE)
                    /\ resources' = resources
                            \o Queued(ins, manifest.inputs, next_temp, task.root_url)
                            \o Queued(outs, manifest.outputs, next_temp + n_in, task.root_url)
                    /\ next_temp' = next_temp + n_in + n_out
                    /\ store' = Commit(store, hash, File(content))
                    /\ temps' = rename(temps, task.temp_path)
                    /\ packages_download_tasks' = Tail(packages_download_tasks)
                    /\ pc' = StageAfter("ingest_packages", packages,
                                        packages_download_tasks', resources',
                                        resources_download_tasks)
                    /\ UNCHANGED << packages, requested_urls,
                                    assigned_hashes, resources_download_tasks,
                                    downloads, result >>
    /\ UNCHANGED << world, validated, run, first >>


\* The URL a manifest's reference is downloaded from.
ResourceUrl(root_url, uri) ==
    normalize_url(IF Len(uri) > 0 /\ uri[1] = "http"
                  THEN uri
                  ELSE root_url \o << "/" >> \o uri)

\* `if let Some(hash) = resource.hash { if store.has_resource(&hash) { continue } }`
AlreadyInstalled(s, resource) ==
    /\ resource.hash # None
    /\ has_resource(s, resource.hash[1])

\* One turn of `for ... in resources.drain(..)`.
DispatchResource ==
    /\ pc = "dispatch"
    /\ Len(downloads) < MaxDownloads
    /\ LET r            == Head(resources)
           resource     == r.resource
           resource_url == ResourceUrl(r.root_url, resource.uri)
           unique_key   == << resource_url, resource.format >>
           task         == [temp_path    |-> r.temp_hash,
                            resource_url |-> resource_url,
                            unique_key   |-> unique_key,
                            resource     |-> resource]
           installed    == AlreadyInstalled(store, resource)
           known        == ResourceRequested(requested_urls, unique_key)
           \* what the turn does: skip the reference, queue it as a package,
           \* or start its download
           skip         == installed \/ known
           queue        == ~skip /\ resource.format = "package"
           start        == ~skip /\ resource.format # "package"
           pending      == IF queue
                           THEN packages \cup
                                { [url |-> resource_url, temp_hash |-> r.temp_hash,
                                   is_root |-> FALSE] }
                           ELSE packages
           tasks        == IF start THEN Append(resources_download_tasks, task)
                           ELSE resources_download_tasks
       IN  /\ resources' = Tail(resources)
           /\ assigned_hashes' = IF installed THEN assigned_hashes
                                 ELSE Insert(assigned_hashes, r.temp_hash, unique_key)
           /\ packages' = pending
           /\ requested_urls' = IF start THEN requested_urls \cup { unique_key }
                                ELSE requested_urls
           /\ resources_download_tasks' = tasks
           /\ downloads' = IF start THEN Append(downloads, unique_key) ELSE downloads
           /\ temps' = IF start THEN Created(temps, r.temp_hash) ELSE temps
           /\ pc' = StageAfter("dispatch", pending, packages_download_tasks,
                               Tail(resources), tasks)
    /\ UNCHANGED << world, store, lock_resources, lock_root, resources_indexes,
                    assign_references, packages_download_tasks, next_temp,
                    result, validated, run, first >>

IsArchive(format) == format = "archive/tar"

ResourceLock(url, format, entry) ==
    [url     |-> url,
     format  |-> format,
     lock    |-> [hash |-> for_entry(entry), size |-> SizeOf(entry.content)],
     inputs  |-> None,
     outputs |-> None]

\* Mutation: the two hashes of the error are swapped.
HashMismatch_Swapped(hash, expected_hash) ==
    [type |-> "HashMismatch", current |-> expected_hash, expected |-> hash]

HashMismatch(hash, expected_hash) ==
    [type |-> "HashMismatch", current |-> hash, expected |-> expected_hash]

\* `if let Some(expected_hash) = resource.hash { if expected_hash != hash {..} }`
Mismatch(resource, hash) ==
    /\ resource.hash # None
    /\ resource.hash[1] # hash

\* The tail of both match arms: verify the hash, then record the resource.
VerifyAndLock(task, entry) ==
    LET hash  == for_entry(entry)
        index == NextIndex(lock_resources)
    IN  IF Mismatch(task.resource, hash)
        THEN /\ Fail(HashMismatch(hash, task.resource.hash[1]))
             /\ UNCHANGED << lock_resources, resources_indexes,
                             resources_download_tasks >>
        ELSE /\ resources_indexes' = SaveIndex(resources_indexes, task.unique_key, index)
             /\ lock_resources' = Append(lock_resources,
                    ResourceLock(task.resource_url, task.resource.format, entry))
             /\ resources_download_tasks' = Tail(resources_download_tasks)
             /\ pc' = StageAfter("ingest_resources", packages,
                                 packages_download_tasks, resources,
                                 resources_download_tasks')
             /\ UNCHANGED result

\* One turn of `for ... in resources_download_tasks.drain(..)`.
IngestResource ==
    /\ pc = "ingest_resources"
    /\ LET task    == Head(resources_download_tasks)
           content == Serve(task.resource_url)
       IN  IF content = NotFound
           THEN /\ Fail([type |-> "DownloaderError"])
                /\ temps' = Insert(temps, task.temp_path, File("empty"))
                /\ UNCHANGED << store, lock_resources, resources_indexes,
                                resources_download_tasks, next_temp >>
           ELSE IF ~IsArchive(task.resource.format)
           THEN \* ResourceFormat::Module(_) | ResourceFormat::File
                LET entry == File(content)
                    hash  == for_entry(entry)
                IN  IF ~CanRenameFile(store, hash)
                    THEN /\ Fail([type |-> "Io"])
                         /\ temps' = Insert(temps, task.temp_path, entry)
                         /\ UNCHANGED << store, lock_resources, resources_indexes,
                                         resources_download_tasks, next_temp >>
                    ELSE /\ store' = Commit(store, hash, entry)
                         /\ temps' = rename(temps, task.temp_path)
                         /\ VerifyAndLock(task, entry)
                         /\ UNCHANGED next_temp
           ELSE \* ResourceFormat::Archive(_)
                IF content \notin ArchiveContents
                THEN /\ Fail([type |-> "ArchiveExtractionError"])
                     /\ temps' = Insert(temps, task.temp_path, File(content))
                     /\ UNCHANGED << store, lock_resources, resources_indexes,
                                     resources_download_tasks, next_temp >>
                ELSE LET entry == Dir(Extracted(content))
                         hash  == for_entry(entry)
                     IN  /\ next_temp' = next_temp + 1
                         /\ IF has_resource(store, hash) /\ store[hash].kind # "dir"
                            THEN \* remove_dir_all fails on a regular file.
                                 /\ Fail([type |-> "Io"])
                                 /\ temps' = Insert(Insert(temps, task.temp_path, File(content)),
                                                    next_temp, entry)
                                 /\ UNCHANGED << store, lock_resources, resources_indexes,
                                                 resources_download_tasks >>
                            ELSE \* the folder of the extracted files is
                                 \* renamed, the archive is removed
                                 /\ store' = Commit(store, hash, entry)
                                 /\ temps' = remove_file(
                                                rename(Insert(temps, next_temp, entry),
                                                       next_temp),
                                                task.temp_path)
                                 /\ VerifyAndLock(task, entry)
    /\ UNCHANGED << world, packages, lock_root, requested_urls, assigned_hashes,
                    assign_references, packages_download_tasks, resources,
                    downloads, validated, run, first >>


\* One turn of `for ... in assign_references`: insert name -> index into the
\* parent's inputs or outputs when the temp hash resolves to a lock index.
AssignReference(locks, ref) ==
    IF ref.temp_hash \in DOMAIN assigned_hashes
    THEN LET unique_key == assigned_hashes[ref.temp_hash]
         IN  IF unique_key \in DOMAIN resources_indexes
             THEN LET resource_index == resources_indexes[unique_key]
                      parent         == locks[ref.index + 1]
                  IN  IF ref.is_input
                      THEN IF parent.inputs # None
                           THEN [locks EXCEPT ![ref.index + 1].inputs =
                                    Some(Insert(parent.inputs[1], ref.name, resource_index))]
                           ELSE locks
                      ELSE IF parent.outputs # None
                           THEN [locks EXCEPT ![ref.index + 1].outputs =
                                    Some(Insert(parent.outputs[1], ref.name, resource_index))]
                           ELSE locks
             ELSE locks
    ELSE locks

RECURSIVE AssignReferences(_, _)
AssignReferences(locks, refs) ==
    IF refs = << >> THEN locks
    ELSE AssignReferences(AssignReference(locks, Head(refs)), Tail(refs))

LockFile(root, locks) == [lock |-> [root |-> root], resources |-> locks]

\* The code after the outer loop: patch the references and return the lock;
\* `lock_root.drain().collect()` yields the root ids in any order.
Finish ==
    /\ pc = "patch"
    /\ lock_resources' = AssignReferences(lock_resources, assign_references)
    /\ \E root \in Orders(lock_root) :
          result' = [kind |-> "ok", lock |-> LockFile(root, lock_resources')]
    /\ pc' = "done"
    /\ UNCHANGED << world, fs, packages, lock_root, requested_urls,
                    resources_indexes, assigned_hashes, assign_references,
                    packages_download_tasks, resources,
                    resources_download_tasks, next_temp, downloads,
                    validated, run, first >>

(***************************************************************************)
(* ResourceStore::validate                                                 *)
(***************************************************************************)
\* Mutation: only the existence of the entries is checked.
RECURSIVE validate_ExistsOnly(_, _)
validate_ExistsOnly(s, locks) ==
    IF locks = << >> THEN TRUE
    ELSE IF ~has_resource(s, Head(locks).lock.hash)
         THEN FALSE
         ELSE validate_ExistsOnly(s, Tail(locks))

RECURSIVE validate(_, _)
validate(s, locks) ==
    IF locks = << >> THEN TRUE
    ELSE LET hash == Head(locks).lock.hash
         IN  IF ~has_resource(s, hash) \/ hash # for_entry(s[hash])
             THEN FALSE
             ELSE validate(s, Tail(locks))

Answer_Rejects(lock_file) ==
    Some([lock_file |-> lock_file, answer |-> FALSE])

Answer(lock_file) ==
    Some([lock_file |-> lock_file, answer |-> validate(store, lock_file.resources)])

\* The caller validates the lock file that build returned.
ValidateLock ==
    /\ pc = "done"
    /\ validated = None
    /\ validated' = Answer(result.lock)
    /\ UNCHANGED << world, fs, builder, pc, result, run, first >>

\* A lock file with its ids replaced by the (url, format) they stand for.
Canon(lock_file) ==
    LET locks  == lock_file.resources
        Key(i) == << locks[i + 1].url, locks[i + 1].format >>
        Refs(i, field, map) ==
            { << Key(i), field, name, Key(map[name]) >> : name \in DOMAIN map }
    IN  [resources |-> { << locks[i].url, locks[i].format, locks[i].lock >> :
                            i \in 1..Len(locks) },
         root      |-> { Key(lock_file.lock.root[j]) :
                            j \in 1..Len(lock_file.lock.root) },
         refs      |-> UNION { IF locks[i + 1].inputs = None THEN {}
                               ELSE Refs(i, "inputs", locks[i + 1].inputs[1])
                                    \cup Refs(i, "outputs", locks[i + 1].outputs[1]) :
                               i \in 0..(Len(locks) - 1) }]

Outcome(r) ==
    IF r.kind = "ok" THEN [kind |-> "ok", lock |-> Canon(r.lock)] ELSE r

\* The same root set is built once more, against a copy of the store as it
\* was before the first build.
Rerun ==
    /\ pc \in { "done", "failed" }
    /\ run < MaxRuns
    /\ run' = run + 1
    /\ first' = Outcome(result)
    /\ store' = store0
    /\ temps' = EmptyMap
    /\ packages' = {}
    /\ lock_resources' = << >>
    /\ lock_root' = {}
    /\ requested_urls' = {}
    /\ resources_indexes' = EmptyMap
    /\ assigned_hashes' = EmptyMap
    /\ assign_references' = << >>
    /\ packages_download_tasks' = << >>
    /\ resources' = << >>
    /\ resources_download_tasks' = << >>
    /\ next_temp' = 1
    /\ downloads' = << >>
    /\ pc' = "idle"
    /\ result' = NoResult
    /\ validated' = None
    /\ UNCHANGED world

Next ==
    \/ BuildStart
    \/ DrainPackage
    \/ IngestPackage
    \/ DispatchResource
    \/ IngestResource
    \/ Finish
    \/ ValidateLock
    \/ Rerun

Spec == Init /\ [][Next]_vars


(***************************************************************************)
(* ResourceStore::validate called on arbitrary lock files and stores.      *)
(***************************************************************************)
MaxLockLen == 2

StoredHashes == { SeaHash("mB"), SeaHash("cf"), SeaHash("dg") }

\* Every store over three hashes: each entry absent, intact or damaged.
ValidateStores ==
    { Restrict(f, { h \in StoredHashes : f[h] # "absent" }) :
        f \in [StoredHashes -> { "absent", "intact", "damaged" }] }

EntryOf(h, state) ==
    IF state = "damaged" THEN File("bad")
    ELSE IF h = SeaHash("dg") THEN Dir("dg")
    ELSE IF h = SeaHash("mB") THEN File("mB") ELSE File("cf")

CandidateLocks ==
    { LockFile(<< >>, [i \in 1..n |->
            [url |-> UrlF, format |-> "file",
             lock |-> [hash |-> hs[i], size |-> 0],
             inputs |-> None, outputs |-> None]]) :
        n \in 0..MaxLockLen, hs \in [1..MaxLockLen -> StoredHashes] }

InitValidate ==
    /\ manifests \in { m \in Manifests :
            m.mA.outputs = EmptyMap /\ m.mB.inputs = EmptyMap
            /\ \A name \in DOMAIN m.mA.inputs : m.mA.inputs[name].hash = None }
    /\ root_packages = {}
    /\ \E states \in ValidateStores :
          store0 = [h \in DOMAIN states |-> EntryOf(h, states[h])]
    /\ store = store0
    /\ temps = EmptyMap
    /\ BuilderReset
    /\ pc = "validate"
    /\ result = NoResult
    /\ validated = None
    /\ run = 1
    /\ first = NoResult
    /\ ElsewhereIdle

ValidateAny ==
    /\ pc = "validate"
    /\ \E lock_file \in CandidateLocks : validated' = Answer(lock_file)
    /\ UNCHANGED << world, fs, builder, pc, result, run, first >>

NextValidate == ValidateAny

SpecValidate == InitValidate /\ [][NextValidate]_vars

(***************************************************************************)
(* Properties of the lock file that build returns.                         *)
(***************************************************************************)
Returned == result.kind = "ok"

Locks == result.lock.resources

LockKey(r) == << r.url, r.format >>

IsPackage(r) == r.format = "package"

\* The ids a lock file refers to: its roots and every inputs/outputs value.
ReferredIds(lock_file) ==
    { lock_file.lock.root[j] : j \in 1..Len(lock_file.lock.root) }
    \cup UNION { IF r.inputs = None THEN {}
                 ELSE { r.inputs[1][n] : n \in DOMAIN r.inputs[1] } :
                 r \in { lock_file.resources[i] : i \in 1..Len(lock_file.resources) } }
    \cup UNION { IF r.outputs = None THEN {}
                 ELSE { r.outputs[1][n] : n \in DOMAIN r.outputs[1] } :
                 r \in { lock_file.resources[i] : i \in 1..Len(lock_file.resources) } }

\* C1: in every lock file build returns, each root id and each value of an
\* inputs or outputs map is an index of the resources list, 0 <= id < length.
C1_IdsAreValidIndexes ==
    Returned =>
        \A id \in ReferredIds(result.lock) : 0 <= id /\ id < Len(Locks)

C1_Witness ==
    /\ Returned
    /\ Len(result.lock.lock.root) = 2
    /\ \E i \in 1..Len(Locks) :
          /\ IsPackage(Locks[i])
          /\ DOMAIN Locks[i].inputs[1] = { "b", "x" }
          /\ DOMAIN Locks[i].outputs[1] = { "o" }

Intact(s, hash) == has_resource(s, hash) /\ for_entry(s[hash]) = hash

\* C2: when build has returned a lock file, every resource of it, packages
\* included, has a store entry at path(hash) whose recomputed hash is hash.
C2_LockedResourcesAreStored ==
    (pc = "done" /\ Returned) =>
        \A i \in 1..Len(Locks) : Intact(store, Locks[i].lock.hash)

\* A build that replaced the damaged entry under f's hash and locked f, an
\* archive and two packages.
C2_Witness ==
    /\ pc = "done" /\ Returned
    /\ has_resource(store0, SeaHash("cf")) /\ ~Intact(store0, SeaHash("cf"))
    /\ \E i, j, k \in 1..Len(Locks) :
          /\ Locks[i].lock.hash = SeaHash("cf")
          /\ IsArchive(Locks[j].format)
          /\ IsPackage(Locks[k]) /\ Locks[k].url = UrlBJson

\* The (url, format) a manifest's declaration refers to: relative to the
\* package's folder, normalized, a package by its package.json.
DeclaredKey(package_url, info) ==
    LET url == ResourceUrl(RootUrl(package_url), info.uri)
    IN  IF info.format = "package"
        THEN << PackageUrl(url), "package" >>
        ELSE << url, info.format >>

Resolves(map, declared, package_url) ==
    \A name \in DOMAIN declared :
        /\ name \in DOMAIN map
        /\ map[name] + 1 \in 1..Len(Locks)
        /\ LockKey(Locks[map[name] + 1]) = DeclaredKey(package_url, declared[name])

\* C3: after a successful build every input and output name a locked
\* package's manifest declares is in that package's inputs (outputs) map and
\* is mapped to the resource with the declared normalized (url, format).
C3_EveryDeclaredNameIsLocked ==
    Returned =>
        \A i \in 1..Len(Locks) :
            IsPackage(Locks[i]) =>
                LET manifest == manifests[Serve(Locks[i].url)]
                IN  /\ Resolves(Locks[i].inputs[1], manifest.inputs, Locks[i].url)
                    /\ Resolves(Locks[i].outputs[1], manifest.outputs, Locks[i].url)

NoDuplicates(seq) ==
    \A i, j \in 1..Len(seq) : seq[i] = seq[j] => i = j

\* C4: during one build no normalized (url, format) is requested from the
\* downloader twice, and no two resources of the lock have the same pair.
C4_EachKeyOnce ==
    /\ NoDuplicates(downloads)
    /\ NoDuplicates([i \in 1..Len(lock_resources) |-> LockKey(lock_resources[i])])

\* A finished build in which two different packages referred to the same
\* file, one of them in a later iteration of the outer loop.
C4_Witness ==
    /\ pc = "done" /\ Returned
    /\ \E i, j \in 1..Len(assign_references) :
          LET a == assign_references[i]
              b == assign_references[j]
          IN  /\ a.index # b.index
              /\ a.temp_hash \in DOMAIN assigned_hashes
              /\ b.temp_hash \in DOMAIN assigned_hashes
              /\ assigned_hashes[a.temp_hash] = << UrlF, "file" >>
              /\ assigned_hashes[b.temp_hash] = << UrlF, "file" >>
              /\ b.index \notin lock_root

\* The resource task at the head of the queue was downloaded, could be moved
\* into the store, and its content hashes to something else than declared.
DownloadedWithWrongHash ==
    /\ pc = "ingest_resources"
    /\ LET task    == Head(resources_download_tasks)
           content == Serve(task.resource_url)
           entry   == IF IsArchive(task.resource.format)
                      THEN Dir(Extracted(content)) ELSE File(content)
       IN  /\ content # NotFound
           /\ IsArchive(task.resource.format) => content \in ArchiveContents
           /\ has_resource(store, for_entry(entry))
                => store[for_entry(entry)].kind = entry.kind
           /\ task.resource.hash # None
           /\ task.resource.hash[1] # for_entry(entry)

ComputedHash(task) ==
    IF IsArchive(task.resource.format)
    THEN SeaHash(Extracted(Serve(task.resource_url)))
    ELSE SeaHash(Serve(task.resource_url))

\* C5: when a downloaded file, module or archive declares a hash that differs
\* from the hash computed from its content, build fails with HashMismatch
\* carrying the computed and the expected hash, and returns no lock file.
C5_WrongHashFailsBuild ==
    [][DownloadedWithWrongHash =>
        /\ pc' = "failed"
        /\ result' = [kind |-> "err",
                      error |-> [type     |-> "HashMismatch",
                                 current  |-> ComputedHash(Head(resources_download_tasks)),
                                 expected |-> Head(resources_download_tasks).resource.hash[1]]]
      ]_vars

\* An archive whose extracted tree does not have the declared hash.
C5_Witness ==
    /\ pc = "failed"
    /\ result.error.type = "HashMismatch"
    /\ result.error.current = SeaHash("dg")
    /\ IsArchive(Head(resources_download_tasks).resource.format)


\* Package A names B as its input "b" and package B names A as its input "a".
CyclicPair ==
    /\ "b" \in DOMAIN manifests.mA.inputs
    /\ DeclaredKey(UrlAJson, manifests.mA.inputs["b"]) = << UrlBJson, "package" >>
    /\ "a" \in DOMAIN manifests.mB.inputs
    /\ DeclaredKey(UrlBJson, manifests.mB.inputs["a"]) = << UrlAJson, "package" >>

\* C6: for packages A and B that name each other as inputs "b" and "a", build
\* with root A returns a lock with exactly two package resources in which
\* A.inputs["b"] is B's index and B.inputs["a"] is A's index.
C6_CycleIsLocked ==
    (Returned /\ root_packages = { UrlA } /\ CyclicPair) =>
        /\ Cardinality({ i \in 1..Len(Locks) : IsPackage(Locks[i]) }) = 2
        /\ \E ia, ib \in 1..Len(Locks) :
              /\ Locks[ia].url = UrlAJson /\ IsPackage(Locks[ia])
              /\ Locks[ib].url = UrlBJson /\ IsPackage(Locks[ib])
              /\ "b" \in DOMAIN Locks[ia].inputs[1]
              /\ Locks[ia].inputs[1]["b"] = ib - 1
              /\ "a" \in DOMAIN Locks[ib].inputs[1]
              /\ Locks[ib].inputs[1]["a"] = ia - 1

\* The builds whose termination is checked: every way in which A and B can
\* refer to each other and to themselves, from either root set.
InitLive ==
    /\ manifests \in { m \in Manifests :
            /\ m.mA.outputs = EmptyMap
            /\ m.mA.inputs["x"].hash = None
            /\ "x" \notin DOMAIN m.mB.inputs }
    /\ root_packages \in { { UrlA }, { UrlA, UrlB } }
    /\ store0 \in InitialStores
    /\ store = store0
    /\ temps = EmptyMap
    /\ BuilderReset
    /\ pc = "idle"
    /\ result = NoResult
    /\ validated = None
    /\ run = 1
    /\ first = NoResult
    /\ ElsewhereIdle

\* The build keeps running until it returns.
LiveSpec == InitLive /\ [][Next]_vars /\ WF_vars(Next)

PackageKeys(seq) ==
    { i \in 1..Len(seq) : seq[i][2] = "package" }

\* No package key is requested twice and no package is locked twice.
PackagesOnce ==
    /\ \A i, j \in PackageKeys(downloads) : downloads[i] = downloads[j] => i = j
    /\ \A i, j \in 1..Len(lock_resources) :
          ( /\ IsPackage(lock_resources[i])
            /\ LockKey(lock_resources[i]) = LockKey(lock_resources[j]) ) => i = j

\* The outer loop is left only with nothing pending.
LoopExit ==
    pc = "patch" =>
        /\ packages = {}
        /\ packages_download_tasks = << >>
        /\ resources = << >>
        /\ resources_download_tasks = << >>

\* C7: every build terminates, cyclic and self-referencing packages
\* included: each package key is downloaded and ingested at most once, the
\* outer loop is left with no package pending, and build returns.
C7_BuildTerminates ==
    /\ [](PackagesOnce /\ LoopExit)
    /\ (pc = "idle") ~> (pc \in { "done", "failed" })

\* A returned lock in which B refers to itself and A and B to each other.
C7_Witness ==
    /\ pc = "done" /\ Returned
    /\ manifests.mB.inputs = ("a" :> Info(UrlBJson, "package", None))
    /\ \E ia, ib \in 1..Len(Locks) :
          /\ Locks[ia].url = UrlAJson /\ Locks[ib].url = UrlBJson
          /\ Locks[ia].inputs[1]["b"] = ib - 1
          /\ Locks[ib].inputs[1]["a"] = ib - 1

\* C8: the lock file does not depend on the order in which packages and
\* resources are dispatched: a second build of the same roots, against the
\* same store content, ends with the same lock up to the numbering of ids.
C8_SameLockInAnyOrder ==
    (run = 2 /\ first.kind = "ok" /\ pc \in { "done", "failed" }) =>
        Outcome(result) = first

\* C9: a reference whose format is Package is always queued for fetching,
\* also when it declares a hash that the store already holds.
C9_PackageAlwaysQueued ==
    [][ ( /\ pc = "dispatch"
          /\ Head(resources).resource.format = "package"
          /\ << ResourceUrl(Head(resources).root_url, Head(resources).resource.uri),
                "package" >> \notin requested_urls )
        => \E p \in packages' : p.temp_hash = Head(resources).temp_hash
      ]_vars

\* C10: validate answers true exactly when every resource of the lock file
\* has a store entry at path(hash) whose recomputed hash is the recorded one.
C10_ValidateIffAllIntact ==
    validated # None =>
        ( validated[1].answer
            <=> \A i \in 1..Len(validated[1].lock_file.resources) :
                    Intact(store, validated[1].lock_file.resources[i].lock.hash) )

\* A lock file whose first resource is intact and whose second resource has
\* an entry with another content.
C10_Witness ==
    /\ validated # None
    /\ Len(validated[1].lock_file.resources) = 2
    /\ Intact(store, validated[1].lock_file.resources[1].lock.hash)
    /\ has_resource(store, validated[1].lock_file.resources[2].lock.hash)
    /\ ~Intact(store, validated[1].lock_file.resources[2].lock.hash)
    /\ validated[1].answer = FALSE

(***************************************************************************)
(* PackagesEngine::create: the drain of the lock file and the evaluation   *)
(* of its modules.                                                         *)
(***************************************************************************)
PackageResource(inputs, outputs) ==
    [format |-> "package", inputs |-> Some(inputs), outputs |-> Some(outputs)]

LeafResource(format) == [format |-> format, inputs |-> None, outputs |-> None]

\* The lock files create is given: resources 0 and 1 are packages P and Q,
\* 2 and 3 are modules M and N, 4 is a file.  Every id is a valid index.
EngineLockFiles ==
    { [root      |-> root,
       resources |-> << PackageResource(pa @@ pb, pm),
                        PackageResource(qa, qm),
                        LeafResource("module/luau"),
                        LeafResource("module/luau"),
                        LeafResource("file") >>] :
        root \in { << 0 >>, << 0, 1 >>, << 1, 0 >>, << 2, 0 >> },
        pa \in Slot("a", { 1, 3, 4 }), pb \in Slot("b", { 2, 3 }),
        pm \in Slot("m", { 1, 2 }),
        qa \in Slot("a", { 0, 1, 3 }), qm \in Slot("m", { 0, 2, 3 }) }

\* The names a module passes to load and import.
CallNames == { "a", "b", "m", "zz" }

LockedResource(key) == engine_lock_file.resources[key + 1]

IsModule(format) == format = "module/luau"

\* The `value` slot of a resource table.
Nil == [kind |-> "nil"]
PathValue(key) == [kind |-> "path", key |-> key]
PackageValue(inputs, outputs) ==
    [kind |-> "package", inputs |-> inputs, outputs |-> outputs]
ModuleValue_NotStored(key) == Nil

ModuleValue(key) == [kind |-> "module", key |-> key]

ResourceTable(format, value) == [format |-> format, value |-> value]

Range(f) == { f[x] : x \in DOMAIN f }

\* Vec::push of the elements of a sequence, in its order.
PushAll(stack, items) == stack \o items

EngineInit ==
    /\ engine_lock_file \in EngineLockFiles
    /\ engine_resources =
          [i \in 1..Len(engine_lock_file.root) |->
              << engine_lock_file.root[i], None >>]
    /\ visited_resources = {}
    /\ evaluation_queue = << >>
    /\ resources_table = << >>
    /\ engine_pc = "create"
    /\ instantiated = << >>
    /\ evaluated = << >>
    /\ last_call = NoCall

\* The children of a package go on the stack, the outputs below the inputs.
PushChildren_OutputsOnTop(rest, output_items, input_items) ==
    PushAll(PushAll(rest, input_items), output_items)

PushChildren(rest, output_items, input_items) ==
    PushAll(PushAll(rest, output_items), input_items)

\* ResourceFormat::Package: the tables of the package and the children it
\* pushes, outputs first and inputs on top of them, each in the order the
\* HashMap happens to iterate.
InstantiatePackage(key, resource, rest) ==
    LET outputs == IF resource.outputs = None THEN EmptyMap ELSE resource.outputs[1]
        inputs  == IF resource.inputs = None THEN EmptyMap ELSE resource.inputs[1]
    IN  /\ resources_table' =
              Insert(resources_table, key,
                     ResourceTable(resource.format, PackageValue(inputs, outputs)))
        /\ \E outs \in Orders(DOMAIN outputs), ins \in Orders(DOMAIN inputs) :
              engine_resources' =
                  PushChildren(rest,
                      [i \in 1..Len(outs) |-> << outputs[outs[i]], Some(key) >>],
                      [i \in 1..Len(ins) |-> << inputs[ins[i]], None >>])
        /\ instantiated' = Append(instantiated, [key |-> key, built |-> TRUE])
        /\ UNCHANGED << evaluation_queue, engine_pc >>

\* Lines 171-219: the tables of the parent and of its inputs must exist.
ParentIsIndexed(parent_context) ==
    \/ parent_context = None
    \/ /\ parent_context[1] \in DOMAIN resources_table
       /\ LET parent_resource == resources_table[parent_context[1]]
          IN  parent_resource.format = "package"
                 => \A resource_key \in Range(parent_resource.value.inputs) :
                       /\ resource_key \in DOMAIN resources_table
                       /\ resources_table[resource_key].format \in { "file", "archive/tar" }
                             => resources_table[resource_key].value.kind = "path"

\* Lines 165-219: `input_resources` of the context of a module: its own
\* path, and the `value` of every File or Archive input of the parent, under
\* the name of the input (pairs() yields them in no particular order).
InputResources(key, parent_context) ==
    [own    |-> PathValue(key),
     inputs |-> IF parent_context = None THEN EmptyMap
                ELSE LET parent_resource == resources_table[parent_context[1]]
                         inputs == parent_resource.value.inputs
                     IN  IF parent_resource.format # "package" THEN EmptyMap
                         ELSE [name \in { n \in DOMAIN inputs :
                                             resources_table[inputs[n]].format
                                                 \in { "file", "archive/tar" } }
                                  |-> resources_table[inputs[name]].value]]

\* ResourceFormat::Module: the file is read, the environment is built and
\* the evaluation is deferred.
InstantiateModule(key, resource, parent_context, rest) ==
    /\ engine_resources' = rest
    /\ resources_table' = Insert(resources_table, key, ResourceTable(resource.format, Nil))
    /\ \E readable \in BOOLEAN :
          IF readable /\ ParentIsIndexed(parent_context)
          THEN /\ evaluation_queue' =
                     Append(evaluation_queue,
                            [key |-> key, parent_context |-> parent_context,
                             input_resources |-> InputResources(key, parent_context)])
               /\ instantiated' = Append(instantiated, [key |-> key, built |-> TRUE])
               /\ UNCHANGED engine_pc
          ELSE /\ engine_pc' = "failed"
               /\ instantiated' = Append(instantiated, [key |-> key, built |-> FALSE])
               /\ UNCHANGED evaluation_queue

\* ResourceFormat::File | ResourceFormat::Archive
InstantiateFile(key, resource, rest) ==
    /\ engine_resources' = rest
    /\ resources_table' =
          Insert(resources_table, key, ResourceTable(resource.format, PathValue(key)))
    /\ instantiated' = Append(instantiated, [key |-> key, built |-> TRUE])
    /\ UNCHANGED << evaluation_queue, engine_pc >>

\* `!visited_resources.insert(key)`: the key was processed before.
AlreadyVisited_Never(key) == FALSE

AlreadyVisited(key) == key \in visited_resources

\* One turn of `while let Some((key, parent_context)) = resources.pop()`.
Instantiate ==
    /\ engine_pc = "create"
    /\ engine_resources # << >>
    /\ LET top            == engine_resources[Len(engine_resources)]
           key            == top[1]
           parent_context == top[2]
           rest           == SubSeq(engine_resources, 1, Len(engine_resources) - 1)
           resource       == LockedResource(key)
       IN  IF AlreadyVisited(key)
           THEN /\ engine_resources' = rest
                /\ UNCHANGED << visited_resources, evaluation_queue, resources_table,
                                engine_pc, instantiated >>
           ELSE /\ visited_resources' = visited_resources \cup { key }
                /\ CASE resource.format = "package"
                          -> InstantiatePackage(key, resource, rest)
                     [] IsModule(resource.format)
                          -> InstantiateModule(key, resource, parent_context, rest)
                     [] OTHER
                          -> InstantiateFile(key, resource, rest)
    /\ UNCHANGED << engine_lock_file, evaluated, last_call >>

\* The drain is over: lua.sandbox(true).
Sandbox ==
    /\ engine_pc = "create"
    /\ engine_resources = << >>
    /\ engine_pc' = "evaluate"
    /\ UNCHANGED << engine_lock_file, engine_resources, visited_resources,
                    evaluation_queue, resources_table, instantiated, evaluated,
                    last_call >>

\* What a call of load or import gives back to the module.
CallError(message) ==
    [ok |-> FALSE, error |-> message, exposes |-> {}, value |-> Nil]

CallOk(exposes, value) ==
    [ok |-> TRUE, error |-> "", exposes |-> exposes, value |-> value]

\* `parent_value.get::<LuaTable>("inputs")`: the table the names are looked
\* up in.
parent_inputs_table_WithOutputs(parent_resource) ==
    parent_resource.value.inputs @@ parent_resource.value.outputs

parent_inputs_table(parent_resource) == parent_resource.value.inputs

\* The input `name` of the parent package as the two functions look it up:
\* the tables are read from the engine registry, never from the lock file.
ParentInput(parent_context, name) ==
    IF parent_context = None
    THEN CallError("no resource found")
    ELSE IF parent_context[1] \notin DOMAIN resources_table
    THEN CallError("lua")
    ELSE LET parent_resource == resources_table[parent_context[1]]
         IN  IF parent_resource.format # "package"
             THEN CallError("invalid parent package format")
             ELSE IF name \notin DOMAIN parent_inputs_table(parent_resource)
             THEN CallError("no resource found")
             ELSE IF parent_inputs_table(parent_resource)[name] \notin DOMAIN resources_table
             THEN CallError("lua")
             ELSE CallOk({}, parent_inputs_table(parent_resource)[name])

\* load(name): the resource table of the input, or for a package the tables
\* of its outputs.
load(parent_context, name) ==
    LET input == ParentInput(parent_context, name)
        found(resource_key) ==
            LET resource == resources_table[resource_key]
            IN  IF resource.format # "package"
                THEN CallOk({ resource_key }, resource)
                ELSE LET outputs == resource.value.outputs
                     IN  IF \E n \in DOMAIN outputs : outputs[n] \notin DOMAIN resources_table
                         THEN CallError("lua")
                         ELSE CallOk({ resource_key } \cup Range(outputs),
                                     [format |-> resource.format,
                                      value  |-> [n \in DOMAIN outputs |->
                                                     resources_table[outputs[n]]]])
    IN  IF input.ok THEN found(input.value) ELSE input

\* import(name): the value of the input, or for a package the values of its
\* outputs.
import(parent_context, name) ==
    LET input == ParentInput(parent_context, name)
        found(resource_key) ==
            LET resource == resources_table[resource_key]
            IN  IF resource.format # "package"
                THEN CallOk({ resource_key }, resource.value)
                ELSE LET outputs == resource.value.outputs
                     IN  IF \E n \in DOMAIN outputs : outputs[n] \notin DOMAIN resources_table
                         THEN CallError("lua")
                         ELSE CallOk({ resource_key } \cup Range(outputs),
                                     [n \in DOMAIN outputs |->
                                         resources_table[outputs[n]].value])
    IN  IF input.ok THEN found(input.value) ELSE input

\* The call a module makes while its chunk runs, if it makes one.
ModuleCalls(entry) ==
    { NoCall }
    \cup { [fn |-> "load", module |-> entry.key, parent_context |-> entry.parent_context,
            name |-> name, result |-> load(entry.parent_context, name)] :
            name \in CallNames }
    \cup { [fn |-> "import", module |-> entry.key, parent_context |-> entry.parent_context,
            name |-> name, result |-> import(entry.parent_context, name)] :
            name \in CallNames }

\* `for (resource_table, module, env) in evaluation_queue`: the element the
\* loop is at.
NextModule_Reversed == evaluation_queue[Len(evaluation_queue) - Len(evaluated)]

NextModule == evaluation_queue[Len(evaluated) + 1]

\* What follows a chunk that raised: `?` returns the error from create.
AfterError_Swallowed == "evaluate"

AfterError == "failed"

\* One turn of the evaluation loop: the chunk is called with its environment
\* and its value is stored in the resource table.
EvaluateModule ==
    /\ engine_pc = "evaluate"
    /\ Len(evaluated) < Len(evaluation_queue)
    /\ LET entry == NextModule
       IN  /\ last_call' \in ModuleCalls(entry)
           /\ \E raised \in BOOLEAN :
                 /\ evaluated' = Append(evaluated, [key |-> entry.key, raised |-> raised])
                 /\ IF raised
                    THEN /\ engine_pc' = AfterError
                         /\ UNCHANGED resources_table
                    ELSE /\ resources_table' =
                              [resources_table EXCEPT
                                  ![entry.key].value = ModuleValue(entry.key)]
                         /\ UNCHANGED engine_pc
    /\ UNCHANGED << engine_lock_file, engine_resources, visited_resources,
                    evaluation_queue, instantiated >>

\* Ok(Self { .. }): the engine exists from here on.
EngineCreated ==
    /\ engine_pc = "evaluate"
    /\ Len(evaluated) = Len(evaluation_queue)
    /\ engine_pc' = "ready"
    /\ UNCHANGED << engine_lock_file, engine_resources, visited_resources,
                    evaluation_queue, resources_table, instantiated, evaluated,
                    last_call >>

\* PackagesEngine::load_root_resources, an accessor of the created engine.
load_root_resources ==
    [i \in 1..Len(engine_lock_file.root) |-> resources_table[engine_lock_file.root[i]]]

LoadRootResources ==
    /\ engine_pc = "ready"
    /\ last_call' = [fn |-> "load_root_resources", result |-> load_root_resources]
    /\ UNCHANGED << engine_lock_file, engine_resources, visited_resources,
                    evaluation_queue, resources_table, engine_pc, instantiated,
                    evaluated >>

\* Result::Ok and Result::Err
Ok(value) == [ok |-> TRUE, value |-> value]

Err(error) == [ok |-> FALSE, error |-> error]

\* 2^16, 2^32 and 2^64, scaled down.
TwoTo16 == 4

TwoTo32 == 8

TwoTo64 == 16

\* `<u32 or u64> as i64`, `<i64> as u16`, `<i64> as u32`, `<i64> as u64`
as_i64(n) == IF n >= TwoTo64 \div 2 THEN n - TwoTo64 ELSE n
as_u16(n) == n % TwoTo16
as_u32(n) == n % TwoTo32
as_u64(n) == n % TwoTo64

\* Hash::to_base32 and Hash::from_base32, on an alphabet of four characters
\* that begins, as Rfc4648HexLower does, with the decimal digits.
Alphabet == << "0", "1", "a", "b" >>

HashValues == 0 .. (Len(Alphabet) * Len(Alphabet) - 1)

to_base32(hash) ==
    << Alphabet[(hash \div Len(Alphabet)) + 1], Alphabet[(hash % Len(Alphabet)) + 1] >>

DigitOf(char) == CHOOSE d \in 1 .. Len(Alphabet) : Alphabet[d] = char

from_base32(str) ==
    IF Len(str) = 2 /\ \A i \in 1 .. 2 : \E d \in 1 .. Len(Alphabet) : Alphabet[d] = str[i]
    THEN Some((DigitOf(str[1]) - 1) * Len(Alphabet) + DigitOf(str[2]) - 1)
    ELSE None

\* The lock.hash of the resources of the lock files create is given.
EngineHashes == << 6, 7, 8, 9, 10 >>

\* The `hash` create stores in the table of resource `key`.
TableHash(key) == to_base32(EngineHashes[key + 1])

DecimalDigits == << "0", "1", "2", "3", "4", "5", "6", "7", "8", "9" >>

IsDecimal(char) == \E d \in 1 .. Len(DecimalDigits) : DecimalDigits[d] = char

DecimalOf(char) == (CHOOSE d \in 1 .. Len(DecimalDigits) : DecimalDigits[d] = char) - 1

RECURSIVE DecimalValue(_)
DecimalValue(text) ==
    IF text = << >> THEN 0
    ELSE 10 * DecimalValue(SubSeq(text, 1, Len(text) - 1)) + DecimalOf(text[Len(text)])

\* str::parse::<u64>
parse_u64(text) ==
    IF text # << >> /\ (\A i \in 1 .. Len(text) : IsDecimal(text[i]))
       /\ DecimalValue(text) < TwoTo64
    THEN Some(DecimalValue(text)) ELSE None

\* u32::to_string of a lock index
IndexText(key) == << DecimalDigits[key + 1] >>

\* str::contains
Contains(str, pattern) ==
    \E i \in 0 .. Len(str) - Len(pattern) :
        SubSeq(str, i + 1, i + Len(pattern)) = pattern

\* LuaTable::sequence_values: the values at 1, 2, ... up to the first nil.
SequenceLen(table) ==
    CHOOSE n \in 0 .. Len(engine_lock_file.resources) :
        /\ \A i \in 1 .. n : i \in DOMAIN table
        /\ (n + 1) \notin DOMAIN table

\* PackagesEngine::load_resource: the key of the table it returns.
load_resource(identifier) ==
    LET numeric_identifier == parse_u64(identifier)
        Matches(id) ==
            \/ Contains(TableHash(id + 1), identifier)
            \/ /\ numeric_identifier # None
               /\ \/ id = numeric_identifier[1]
                  \/ from_base32(TableHash(id + 1)) = numeric_identifier
        found == { id \in 0 .. SequenceLen(resources_table) - 1 : Matches(id) }
    IN  IF numeric_identifier # None
           /\ as_u32(numeric_identifier[1]) \in DOMAIN resources_table
        THEN IF numeric_identifier[1] \in DOMAIN resources_table
             THEN Ok(Some(numeric_identifier[1]))
             ELSE Err("FromLuaConversionError")
        ELSE IF found = {} THEN Ok(None)
        ELSE Ok(Some(1 + CHOOSE id \in found : \A other \in found : id <= other))

\* The host asks the created engine for a resource it loaded, by its lock
\* index or by its hash.
LoadResource ==
    /\ engine_pc = "ready"
    /\ \E key \in DOMAIN resources_table :
          \E identifier \in { IndexText(key), TableHash(key) } :
             last_call' = [fn |-> "load_resource", key |-> key,
                           identifier |-> identifier,
                           result |-> load_resource(identifier)]
    /\ UNCHANGED << engine_lock_file, engine_resources, visited_resources,
                    evaluation_queue, resources_table, engine_pc, instantiated,
                    evaluated >>

resolver == << manifests, root_packages, store0, fs, builder, pc, result,
               validated, run, first >>

NextEngine ==
    \/ Instantiate /\ UNCHANGED << resolver, sync, concurrent, network, conversion, extraction >>
    \/ Sandbox /\ UNCHANGED << resolver, sync, concurrent, network, conversion, extraction >>
    \/ EvaluateModule /\ UNCHANGED << resolver, sync, concurrent, network, conversion, extraction >>
    \/ EngineCreated /\ UNCHANGED << resolver, sync, concurrent, network, conversion, extraction >>
    \/ LoadRootResources /\ UNCHANGED << resolver, sync, concurrent, network, conversion, extraction >>
    \/ LoadResource /\ UNCHANGED << resolver, sync, concurrent, network, conversion, extraction >>

InitEngine ==
    /\ manifests = CHOOSE m \in Manifests : TRUE
    /\ root_packages = {}
    /\ store0 = EmptyMap
    /\ store = store0
    /\ temps = EmptyMap
    /\ BuilderReset
    /\ pc = "engine"
    /\ result = NoResult
    /\ validated = None
    /\ run = 1
    /\ first = NoResult
    /\ EngineInit
    /\ SyncIdle
    /\ ConcurrentIdle
    /\ NetworkIdle
    /\ ConversionIdle
    /\ ExtractionIdle

SpecEngine == InitEngine /\ [][NextEngine]_vars

\* create reacts to what the caller hands it and to nothing else.
LiveEngine == InitEngine /\ [][NextEngine]_vars /\ WF_vars(NextEngine)

(***************************************************************************)
(* Claims about PackagesEngine::create                                     *)
(***************************************************************************)
InputsOf(key) ==
    IF LockedResource(key).inputs = None THEN EmptyMap ELSE LockedResource(key).inputs[1]

OutputsOf(key) ==
    IF LockedResource(key).outputs = None THEN EmptyMap ELSE LockedResource(key).outputs[1]

Children(key) == Range(InputsOf(key)) \cup Range(OutputsOf(key))

RECURSIVE Closure(_, _)
Closure(keys, n) ==
    IF n = 0 THEN keys
    ELSE Closure(keys \cup UNION { Children(key) : key \in keys }, n - 1)

ReachableFrom(keys) == Closure(keys, Len(engine_lock_file.resources))

\* What a module whose parent is P reaches through load and import: the
\* inputs of P and the outputs of the packages among them.
Loadable(P) ==
    Range(InputsOf(P)) \cup UNION { Range(OutputsOf(I)) : I \in Range(InputsOf(P)) }

LoadableModules(P) == { N \in Loadable(P) : IsModule(LockedResource(N).format) }

HasValue(N) == N \in DOMAIN resources_table /\ resources_table[N].value # Nil

\* The evaluation loop is about to call the chunk of a module queued as an
\* output of a package.
AboutToEvaluate ==
    /\ engine_pc = "evaluate"
    /\ Len(evaluated) < Len(evaluation_queue)
    /\ NextModule.parent_context # None

\* C11 as stated: when a module M queued as an output of package P is
\* evaluated, every module N it could load or import (an input of P, or an
\* output of a package that is an input of P) has been evaluated and has its
\* value stored.
C11_DependenciesFirst ==
    [][(AboutToEvaluate /\ evaluated' # evaluated)
          => \A N \in LoadableModules(NextModule.parent_context[1]) : HasValue(N)
      ]_vars

\* P can be reached again from one of its own inputs.
OnCycle(P) == P \in ReachableFrom(Range(InputsOf(P)))

\* C11 amended: the same, for a package P that none of its own inputs leads
\* back to, and for every module N other than M itself.
C11_DependenciesFirstWithoutCycle ==
    [][(AboutToEvaluate /\ evaluated' # evaluated
            /\ ~OnCycle(NextModule.parent_context[1]))
          => \A N \in LoadableModules(NextModule.parent_context[1]) \ { NextModule.key } :
                HasValue(N)
      ]_vars

\* M, an output of P, was evaluated after N, an output of P's input Q.
C11_Witness ==
    /\ engine_pc = "ready"
    /\ Len(evaluated) = 2
    /\ evaluation_queue[2].parent_context = Some(0)
    /\ ~OnCycle(0)
    /\ evaluated[1].key \in Range(OutputsOf(1))
    /\ 1 \in Range(InputsOf(0))
    /\ evaluated[1].key # evaluated[2].key

RECURSIVE Reverse(_)
Reverse(seq) ==
    IF seq = << >> THEN << >> ELSE Append(Reverse(Tail(seq)), Head(seq))

\* The modules in the order the drain visited them.
DrainedModules ==
    LET modules == SelectSeq(instantiated,
                       LAMBDA r : r.built /\ IsModule(LockedResource(r.key).format))
    IN  [i \in 1..Len(modules) |-> modules[i].key]

EvaluatedModules == [i \in 1..Len(evaluated) |-> evaluated[i].key]

IsPrefix(a, b) == Len(a) <= Len(b) /\ SubSeq(b, 1, Len(a)) = a

\* C12 as stated: the modules are evaluated in the reverse of the order in
\* which the drain visited them.
C12_ReverseDrainOrder ==
    engine_pc = "ready" => EvaluatedModules = Reverse(DrainedModules)

\* C12 amended: the modules are evaluated in the order in which the drain
\* visited them, the module drained first being evaluated first.
C12_DrainOrder ==
    /\ engine_pc \in { "evaluate", "failed" } => IsPrefix(EvaluatedModules, DrainedModules)
    /\ engine_pc = "ready" => EvaluatedModules = DrainedModules

C12_Witness ==
    /\ engine_pc = "ready"
    /\ Len(evaluated) = 2
    /\ EvaluatedModules = DrainedModules
    /\ EvaluatedModules # Reverse(DrainedModules)

Count(seq, key) == Cardinality({ i \in 1..Len(seq) : seq[i].key = key })

DrainOver == engine_pc \in { "evaluate", "ready", "failed" }

\* C13: the drain terminates for every lock file with valid ids, cyclic ones
\* included, and builds each resource reachable from the roots exactly once,
\* each reachable module being queued for evaluation exactly once.
C13_DrainTerminates ==
    /\ <>DrainOver
    /\ [](\A key \in 0..(Len(engine_lock_file.resources) - 1) :
            /\ Count(instantiated, key) <= 1
            /\ Count(evaluation_queue, key) <= 1
            /\ Count(instantiated, key) = 1 => key \in ReachableFrom(Range(engine_lock_file.root))
            /\ engine_pc \in { "evaluate", "ready" } =>
                  /\ key \in ReachableFrom(Range(engine_lock_file.root))
                        => Count(instantiated, key) = 1
                  /\ (key \in ReachableFrom(Range(engine_lock_file.root))
                        /\ IsModule(LockedResource(key).format))
                        => Count(evaluation_queue, key) = 1)

\* P and Q are inputs of each other; the two packages and their two modules
\* were instantiated once each.
C13_Witness ==
    /\ engine_pc = "evaluate"
    /\ 1 \in Range(InputsOf(0))
    /\ 0 \in Range(InputsOf(1))
    /\ Len(instantiated) = 4
    /\ Len(evaluation_queue) = 2

\* C14: load(name) and import(name) succeed exactly when the module has a
\* parent package whose inputs have the key name, and then give the module
\* that input and, when it is a package, its outputs, and nothing else.
C14_OnlyParentInputs ==
    last_call.fn \in { "load", "import" } =>
        LET parent == last_call.parent_context
            named  == /\ parent # None
                      /\ LockedResource(parent[1]).format = "package"
                      /\ last_call.name \in DOMAIN InputsOf(parent[1])
        IN  /\ last_call.result.ok <=> named
            /\ ~last_call.result.ok =>
                  last_call.result.error \in { "no resource found",
                                               "invalid parent package format" }
            /\ last_call.result.ok =>
                  last_call.result.exposes =
                      { InputsOf(parent[1])[last_call.name] }
                      \cup Range(OutputsOf(InputsOf(parent[1])[last_call.name]))

\* Module N loaded the package P, an input of its parent Q, and was given P
\* and the output M of P.
C14_Witness ==
    /\ last_call.fn = "load"
    /\ last_call.result.ok
    /\ last_call.parent_context = Some(1)
    /\ last_call.result.exposes = { 0, 2 }

Failed ==
    \/ \E i \in 1..Len(instantiated) : ~instantiated[i].built
    \/ \E i \in 1..Len(evaluated) : evaluated[i].raised

\* C15: when a module file cannot be read or a module raises while being
\* evaluated, create returns an error and no engine: nothing is evaluated
\* after the failing step and no accessor ever answers.
C15_NoPartialEngine ==
    /\ [](Failed =>
            /\ engine_pc = "failed"
            /\ last_call.fn # "load_root_resources"
            /\ \A i \in 1..Len(evaluated) : evaluated[i].raised => i = Len(evaluated))
    /\ [][Failed => UNCHANGED << engine_pc, evaluated, resources_table >>]_vars

\* The first module was evaluated, the second one raised.
C15_Witness ==
    /\ engine_pc = "failed"
    /\ Len(evaluation_queue) = 2
    /\ Len(evaluated) = 2
    /\ evaluated[2].raised

(***************************************************************************)
(* SyncAPI: sync.channel.  Every function holds the lock of the handle     *)
(* table from its first access of it to its return.                        *)
(***************************************************************************)
\* The handles rand::random::<i32>() gives to the opens of each key.
ChannelOpens == { << "k1", 1 >>, << "k1", 2 >>, << "k1", 3 >>, << "k2", 3 >> }

ChannelHandles == { open[2] : open \in ChannelOpens }

MaxMessages == 3

Without(m, k) == Restrict(m, DOMAIN m \ { k })

ChannelReturn(fn, handle, ok, error, value, due) ==
    [fn |-> fn, handle |-> handle, ok |-> ok, error |-> error, value |-> value,
     due |-> due]

invalid_channel_handle_Ignored(fn, handle) ==
    ChannelReturn(fn, handle, TRUE, "", << >>, << >>)

invalid_channel_handle(fn, handle) ==
    ChannelReturn(fn, handle, FALSE, "invalid channel handle", << >>, << >>)

\* sync.channel.open(key)
ChannelOpen ==
    \E open \in ChannelOpens :
        LET key    == open[1]
            handle == open[2]
        IN  /\ handle \notin DOMAIN sync_channels_data
            /\ LET hash      == SeaHash(key)
                   listeners == IF hash \in DOMAIN sync_channels_consumers
                                THEN sync_channels_consumers[hash] ELSE {}
               IN  /\ sync_channels_consumers' =
                         Insert(sync_channels_consumers, hash, listeners \cup { handle })
                   /\ sync_channels_data' =
                         Insert(sync_channels_data, handle,
                                [key |-> hash, data |-> << >>])
            /\ sync_result' = ChannelReturn("open", handle, TRUE, "", << handle >>, << >>)
            /\ opened' = Insert(opened, handle, [key |-> key, since |-> sent])
            /\ expected' = Insert(expected, handle, << >>)
            /\ UNCHANGED sent

\* `if consumer != &handle`: the handles a message is pushed to.
Recipients_All(consumers, handle) == consumers

Recipients(consumers, handle) == consumers \ { handle }

\* VecDeque::push_back
push_back_Front(data, message) == << message >> \o data

push_back(data, message) == Append(data, message)

\* The handles the API has given out on the key of `handle` and not closed.
OpenWith(handle) ==
    IF handle \in DOMAIN opened
    THEN { h \in DOMAIN opened : h # handle /\ opened[h].key = opened[handle].key }
    ELSE {}

\* sync.channel.send(handle, message)
ChannelSend ==
    \E handle \in ChannelHandles, coercible \in BOOLEAN :
        IF ~coercible
        THEN /\ sync_result' = ChannelReturn("send", handle, FALSE,
                                   "can't coerce given value type", << >>, << >>)
             /\ UNCHANGED << sync_channels_consumers, sync_channels_data,
                             opened, sent, expected >>
        ELSE IF \/ handle \notin DOMAIN sync_channels_data
                \/ sync_channels_data[handle].key \notin DOMAIN sync_channels_consumers
        THEN /\ sync_result' = invalid_channel_handle("send", handle)
             /\ UNCHANGED << sync_channels_consumers, sync_channels_data,
                             opened, sent, expected >>
        ELSE /\ sent < MaxMessages
             /\ LET key       == sync_channels_data[handle].key
                    message   == [id     |-> sent + 1,
                                  sender |-> handle,
                                  key    |-> IF handle \in DOMAIN opened
                                             THEN opened[handle].key ELSE ""]
                    consumers == Recipients(sync_channels_consumers[key], handle)
                IN  /\ sync_channels_data' =
                          [h \in DOMAIN sync_channels_data |->
                              IF h \in consumers
                              THEN [sync_channels_data[h] EXCEPT
                                       !.data = push_back(@, message)]
                              ELSE sync_channels_data[h]]
                    /\ expected' =
                          [h \in DOMAIN expected |->
                              IF h \in OpenWith(handle)
                              THEN Append(expected[h], message) ELSE expected[h]]
             /\ sync_result' = ChannelReturn("send", handle, TRUE, "", << >>, << >>)
             /\ sent' = sent + 1
             /\ UNCHANGED << sync_channels_consumers, opened >>

\* sync.channel.recv(handle)
ChannelRecv ==
    \E handle \in ChannelHandles :
        IF handle \notin DOMAIN sync_channels_data
        THEN /\ sync_result' = invalid_channel_handle("recv", handle)
             /\ UNCHANGED << sync_channels_consumers, sync_channels_data,
                             opened, sent, expected >>
        ELSE LET data == sync_channels_data[handle].data
                 due  == IF handle \in DOMAIN expected /\ expected[handle] # << >>
                         THEN << Head(expected[handle]) >> ELSE << >>
             IN  /\ sync_result' =
                       ChannelReturn("recv", handle, TRUE, "",
                                     IF data = << >> THEN << >> ELSE << Head(data) >>,
                                     due)
                 /\ sync_channels_data' =
                       IF data = << >> THEN sync_channels_data
                       ELSE [sync_channels_data EXCEPT ![handle].data = Tail(data)]
                 /\ expected' =
                       IF due = << >> THEN expected
                       ELSE [expected EXCEPT ![handle] = Tail(@)]
                 /\ UNCHANGED << sync_channels_consumers, opened, sent >>

\* `listeners.remove(&handle)` of close: the handle leaves the table.
Forget(table, handle) == Without(table, handle)

\* sync.channel.close(handle)
ChannelClose ==
    \E handle \in ChannelHandles :
        /\ IF handle \in DOMAIN sync_channels_data
           THEN LET hash == sync_channels_data[handle].key
                    left == IF hash \in DOMAIN sync_channels_consumers
                            THEN sync_channels_consumers[hash] \ { handle } ELSE {}
                IN  /\ sync_channels_data' = Forget(sync_channels_data, handle)
                    /\ sync_channels_consumers' =
                          IF left = {}
                          THEN Without(sync_channels_consumers, hash)
                          ELSE Insert(sync_channels_consumers, hash, left)
           ELSE UNCHANGED << sync_channels_consumers, sync_channels_data >>
        /\ sync_result' = ChannelReturn("close", handle, TRUE, "", << >>, << >>)
        /\ opened' = Without(opened, handle)
        /\ expected' = Without(expected, handle)
        /\ UNCHANGED sent

channels == << sync_channels_consumers, sync_channels_data, sync_result,
               opened, sent, expected >>

mutexes == << sync_mutex_consumers, sync_mutex_locks, mutex_calls >>

NextChannels ==
    \/ ChannelOpen /\ UNCHANGED << resolver, engine, mutexes, concurrent, network, conversion, extraction >>
    \/ ChannelSend /\ UNCHANGED << resolver, engine, mutexes, concurrent, network, conversion, extraction >>
    \/ ChannelRecv /\ UNCHANGED << resolver, engine, mutexes, concurrent, network, conversion, extraction >>
    \/ ChannelClose /\ UNCHANGED << resolver, engine, mutexes, concurrent, network, conversion, extraction >>

\* The resolver at rest.
ResolverIdle ==
    /\ manifests = CHOOSE m \in Manifests : TRUE
    /\ root_packages = {}
    /\ store0 = EmptyMap
    /\ store = store0
    /\ temps = EmptyMap
    /\ BuilderReset
    /\ result = NoResult
    /\ validated = None
    /\ run = 1
    /\ first = NoResult

InitChannels ==
    /\ ResolverIdle
    /\ pc = "sync"
    /\ EngineIdle
    /\ SyncIdle
    /\ ConcurrentIdle
    /\ NetworkIdle
    /\ ConversionIdle
    /\ ExtractionIdle

SpecChannels == InitChannels /\ [][NextChannels]_vars

(***************************************************************************)
(* Claims about sync.channel                                               *)
(***************************************************************************)
Queue(handle) == sync_channels_data[handle].data

Received == sync_result.fn = "recv" /\ sync_result.ok /\ sync_result.value # << >>

\* C16: whatever the interleaving of open, send, recv and close, the queue of
\* an open handle holds exactly the messages sent by the other handles of
\* its key since it was opened and not yet received, once each and in send
\* order, and recv hands out the oldest of them.
C16_DeliveredOnceInOrder ==
    /\ \A handle \in DOMAIN opened :
          /\ handle \in DOMAIN sync_channels_data
          /\ Queue(handle) = expected[handle]
    /\ sync_result.fn = "recv" /\ sync_result.ok
          => sync_result.value = sync_result.due

\* Handle 1 sent two messages to handles 2 and 3; handle 3 still holds both,
\* handle 2 has just received the second one.
C16_Witness ==
    /\ Received
    /\ sync_result.handle = 2
    /\ sync_result.value[1] = [id |-> 2, sender |-> 1, key |-> "k1"]
    /\ 3 \in DOMAIN sync_channels_data
    /\ Len(Queue(3)) = 2
    /\ Queue(3)[1].sender = 1 /\ Queue(3)[2].sender = 1

FromAnotherSinceOpen(message, handle) ==
    /\ message.sender # handle
    /\ message.key = opened[handle].key
    /\ message.id > opened[handle].since

\* C17: a handle never holds or receives a message it sent itself, one sent
\* on another key or one sent before it was opened, and a message sent while
\* no other handle is open on the key reaches no queue.
C17_OnlyForeignMessages ==
    /\ [](/\ \A handle \in DOMAIN sync_channels_data \cap DOMAIN opened :
                \A i \in 1..Len(Queue(handle)) :
                    FromAnotherSinceOpen(Queue(handle)[i], handle)
          /\ Received => FromAnotherSinceOpen(sync_result.value[1], sync_result.handle))
    /\ [][(sent' = sent + 1 /\ OpenWith(sync_result'.handle) = {})
             => \A handle \in DOMAIN sync_channels_data' :
                   handle \in DOMAIN sync_channels_data
                   /\ sync_channels_data'[handle] = sync_channels_data[handle]
         ]_vars

\* Handle 1 on k1 sent a message while the only other handle was open on k2.
C17_Witness ==
    /\ sync_result.fn = "send" /\ sync_result.ok /\ sync_result.handle = 1
    /\ sent = 1
    /\ DOMAIN opened = { 1, 3 }
    /\ opened[3].key = "k2"
    /\ Queue(1) = << >> /\ Queue(3) = << >>

NotOpen == sync_result.handle \notin DOMAIN opened

ClosedHandlesAreGone ==
    \A handle \in ChannelHandles \ DOMAIN opened :
        /\ handle \notin DOMAIN sync_channels_data
        /\ \A key \in DOMAIN sync_channels_consumers :
              handle \notin sync_channels_consumers[key]

FailedCallsChangeNothing ==
    [][(sync_result'.fn \in { "send", "recv" } /\ ~sync_result'.ok)
          => UNCHANGED << sync_channels_consumers, sync_channels_data >>]_vars

\* C18 as stated: send and recv on a handle that is not open fail with the
\* invalid-handle error and change no queue, and a closed handle is no
\* recipient any more.
C18_InvalidHandleError ==
    /\ [](/\ (sync_result.fn \in { "send", "recv" } /\ NotOpen)
                => /\ ~sync_result.ok
                   /\ sync_result.error = "invalid channel handle"
          /\ ClosedHandlesAreGone)
    /\ FailedCallsChangeNothing

\* C18 amended: the same, except that send reports a value it cannot turn
\* into a message before it looks at the handle.
C18_InvalidHandleFails ==
    /\ [](/\ (sync_result.fn \in { "send", "recv" } /\ NotOpen)
                => /\ ~sync_result.ok
                   /\ \/ sync_result.error = "invalid channel handle"
                      \/ /\ sync_result.fn = "send"
                         /\ sync_result.error = "can't coerce given value type"
          /\ (sync_result.fn = "recv" /\ NotOpen)
                => sync_result.error = "invalid channel handle"
          /\ ClosedHandlesAreGone)
    /\ FailedCallsChangeNothing

\* A send on a handle that is not open was refused while a message was
\* waiting in the queue of another handle.
C18_Witness ==
    /\ sync_result.fn = "send"
    /\ sync_result.error = "invalid channel handle"
    /\ NotOpen
    /\ \E handle \in DOMAIN sync_channels_data : Queue(handle) # << >>

(***************************************************************************)
(* SyncAPI: sync.mutex.  lock polls the table of locks, releasing it       *)
(* between two looks, so a lock call spans several steps of its thread.    *)
(***************************************************************************)
MutexThreads == { "t1", "t2" }

\* The handles rand::random::<i32>() gives to the opens of each key.
MutexOpens == { << "k1", 1 >>, << "k1", 2 >>, << "k2", 2 >> }

MutexHandles == { open[2] : open \in MutexOpens }

MutexReturn(fn, handle, ok, error) ==
    ChannelReturn(fn, handle, ok, error, << >>, << >>)

invalid_mutex_handle(fn, handle) ==
    MutexReturn(fn, handle, FALSE, "invalid mutex handle")

\* The threads that are not inside a call.
Running == MutexThreads \ DOMAIN mutex_calls

IsLocked(key) == key \in DOMAIN sync_mutex_locks /\ sync_mutex_locks[key] # None

\* sync.mutex.open(key)
MutexOpen ==
    \E thread \in Running, open \in MutexOpens :
        /\ open[2] \notin DOMAIN sync_mutex_consumers
        /\ sync_mutex_consumers' = Insert(sync_mutex_consumers, open[2], SeaHash(open[1]))
        /\ sync_result' = MutexReturn("open", open[2], TRUE, "")
        /\ UNCHANGED << sync_mutex_locks, mutex_calls >>

\* sync.mutex.lock(handle), up to the loop: the key of the handle is read.
MutexLock ==
    \E thread \in Running, handle \in MutexHandles :
        IF handle \notin DOMAIN sync_mutex_consumers
        THEN /\ sync_result' = invalid_mutex_handle("lock", handle)
             /\ UNCHANGED << sync_mutex_consumers, sync_mutex_locks, mutex_calls >>
        ELSE LET key == sync_mutex_consumers[handle]
             IN  /\ mutex_calls' =
                       Insert(mutex_calls, thread,
                              [handle |-> handle,
                               key    |-> key,
                               holder |-> IsLocked(key)
                                          /\ sync_mutex_locks[key] = Some(handle),
                               slept  |-> FALSE])
                 /\ UNCHANGED << sync_mutex_consumers, sync_mutex_locks, sync_result >>

\* One turn of the loop of lock: the mutex is taken when nobody holds it,
\* otherwise the thread sleeps MUTEX_LOCK_TIMEOUT and looks again.
MutexPoll ==
    \E thread \in DOMAIN mutex_calls :
        LET call == mutex_calls[thread]
        IN  IF IsLocked(call.key)
            THEN /\ mutex_calls' = [mutex_calls EXCEPT ![thread].slept = TRUE]
                 /\ UNCHANGED << sync_mutex_consumers, sync_mutex_locks, sync_result >>
            ELSE /\ sync_mutex_locks' =
                       Insert(sync_mutex_locks, call.key, Some(call.handle))
                 /\ mutex_calls' = Without(mutex_calls, thread)
                 /\ sync_result' = MutexReturn("lock", call.handle, TRUE, "")
                 /\ UNCHANGED sync_mutex_consumers

\* sync.mutex.unlock(handle)
MutexUnlock ==
    \E thread \in Running, handle \in MutexHandles :
        /\ IF handle \notin DOMAIN sync_mutex_consumers
           THEN /\ sync_result' = invalid_mutex_handle("unlock", handle)
                /\ UNCHANGED sync_mutex_locks
           ELSE LET key == sync_mutex_consumers[handle]
                IN  IF IsLocked(key) /\ sync_mutex_locks[key] # Some(handle)
                    THEN /\ sync_result' =
                               MutexReturn("unlock", handle, FALSE,
                                   "can't unlock mutex locked by another handle")
                         /\ UNCHANGED sync_mutex_locks
                    ELSE /\ sync_mutex_locks' =
                               IF IsLocked(key)
                               THEN Insert(sync_mutex_locks, key, None)
                               ELSE sync_mutex_locks
                         /\ sync_result' = MutexReturn("unlock", handle, TRUE, "")
        /\ UNCHANGED << sync_mutex_consumers, mutex_calls >>

\* sync.mutex.close(handle)
MutexClose ==
    \E thread \in Running, handle \in MutexHandles :
        /\ sync_mutex_consumers' = Without(sync_mutex_consumers, handle)
        /\ sync_mutex_locks' =
              IF /\ handle \in DOMAIN sync_mutex_consumers
                 /\ IsLocked(sync_mutex_consumers[handle])
                 /\ sync_mutex_locks[sync_mutex_consumers[handle]] = Some(handle)
              THEN Insert(sync_mutex_locks, sync_mutex_consumers[handle], None)
              ELSE sync_mutex_locks
        /\ sync_result' = MutexReturn("close", handle, TRUE, "")
        /\ UNCHANGED mutex_calls

not_mutexes == << resolver, engine, concurrent, network, conversion, extraction,
                  sync_channels_consumers,
                  sync_channels_data, opened, sent, expected >>

NextMutexes ==
    \/ MutexOpen /\ UNCHANGED not_mutexes
    \/ MutexLock /\ UNCHANGED not_mutexes
    \/ MutexPoll /\ UNCHANGED not_mutexes
    \/ MutexUnlock /\ UNCHANGED not_mutexes
    \/ MutexClose /\ UNCHANGED not_mutexes

InitMutexes ==
    /\ ResolverIdle
    /\ pc = "sync"
    /\ EngineIdle
    /\ SyncIdle
    /\ ConcurrentIdle
    /\ NetworkIdle
    /\ ConversionIdle
    /\ ExtractionIdle

SpecMutexes == InitMutexes /\ [][NextMutexes]_vars

(***************************************************************************)
(* Claims about sync.mutex                                                 *)
(***************************************************************************)
\* C19: a lock call made with the handle that already holds the mutex
\* returns without blocking: its thread never has to sleep.
C19_ReentrantByHandle ==
    \A thread \in DOMAIN mutex_calls :
        mutex_calls[thread].holder => ~mutex_calls[thread].slept

(***************************************************************************)
(* Two builds on one store.  Each build ingests one resource; every call   *)
(* it makes on the store folder is a step of its own, so the calls of the  *)
(* two builds interleave in every order.                                   *)
(***************************************************************************)
Builds == { 1, 2 }

\* The resource a build has dispatched: the file f or the archive g.
SharedResources == { [url |-> UrlF, format |-> "file"],
                     [url |-> UrlG, format |-> "archive/tar"] }

\* The store the builds start on: empty, or left by an earlier build of g.
SharedStores == { EmptyMap, SeaHash("dg") :> Dir("dg") }

NoPath == << >>

BuildOf(resource) ==
    [resource         |-> resource,
     at               |-> "download",
     temp_path        |-> NoPath,
     tmp_extract_path |-> NoPath,
     hash             |-> None,
     existed          |-> FALSE,
     error            |-> ""]

At(build, at) == build \in DOMAIN builds /\ builds[build].at = at

Goto(build, at) == builds' = [builds EXCEPT ![build].at = at]

IoError(build, error) ==
    builds' = [builds EXCEPT ![build].at = "failed", ![build].error = error]

\* `store.get_temp_path(&temp_hash)` and the download into it.
Download ==
    \E build \in Builds :
        /\ At(build, "download")
        /\ temps' = Insert(temps, next_temp, File(Serve(builds[build].resource.url)))
        /\ next_temp' = next_temp + 1
        /\ builds' = [builds EXCEPT
                         ![build].temp_path = << next_temp >>,
                         ![build].at = IF IsArchive(builds[build].resource.format)
                                       THEN "extract" ELSE "hash"]
        /\ UNCHANGED << store, committed >>

\* The archive is extracted into `store.get_temp_path(&Hash::rand())`.
Extract ==
    \E build \in Builds :
        /\ At(build, "extract")
        /\ temps' = Insert(temps, next_temp,
                           Dir(Extracted(temps[builds[build].temp_path[1]].content)))
        /\ next_temp' = next_temp + 1
        /\ builds' = [builds EXCEPT ![build].tmp_extract_path = << next_temp >>,
                                    ![build].at = "hash"]
        /\ UNCHANGED << store, committed >>

\* The entry the build moves into the store.
Staged(build) ==
    IF IsArchive(builds[build].resource.format)
    THEN builds[build].tmp_extract_path[1]
    ELSE builds[build].temp_path[1]

\* `Hash::for_entry(..)` of the staged entry.
HashEntry ==
    \E build \in Builds :
        /\ At(build, "hash")
        /\ builds' = [builds EXCEPT
                         ![build].hash = Some(for_entry(temps[Staged(build)])),
                         ![build].at = IF IsArchive(builds[build].resource.format)
                                       THEN "exists" ELSE "rename"]
        /\ UNCHANGED << store, temps, next_temp, committed >>

\* `if src_path.exists()`
Exists ==
    \E build \in Builds :
        /\ At(build, "exists")
        /\ builds' = [builds EXCEPT
                         ![build].existed = has_resource(store, builds[build].hash[1]),
                         ![build].at = IF has_resource(store, builds[build].hash[1])
                                       THEN "remove_dir_all" ELSE "rename"]
        /\ UNCHANGED << store, temps, next_temp, committed >>

\* `std::fs::remove_dir_all(&src_path)?`
RemoveDirAll ==
    \E build \in Builds :
        /\ At(build, "remove_dir_all")
        /\ IF has_resource(store, builds[build].hash[1])
           THEN /\ store' = Without(store, builds[build].hash[1])
                /\ Goto(build, "rename")
           ELSE /\ IoError(build, "NotFound")
                /\ UNCHANGED store
        /\ UNCHANGED << temps, next_temp, committed >>

\* rename(2) of the staged entry onto the final path: a file replaces a
\* file, a directory replaces nothing but an empty directory.
CanRename(entry, hash) ==
    \/ ~has_resource(store, hash)
    \/ entry.kind = "file" /\ store[hash].kind = "file"

\* `std::fs::rename(.., &src_path)?`
Rename ==
    \E build \in Builds :
        /\ At(build, "rename")
        /\ LET hash  == builds[build].hash[1]
               entry == temps[Staged(build)]
           IN  IF CanRename(entry, hash)
               THEN /\ store' = Insert(store, hash, entry)
                    /\ temps' = Without(temps, Staged(build))
                    /\ committed' = [committed EXCEPT ![build] = @ \cup { hash }]
                    /\ Goto(build, IF IsArchive(builds[build].resource.format)
                                   THEN "remove_file" ELSE "metadata")
               ELSE /\ IoError(build, IF store[hash].kind = "dir"
                                      THEN "DirectoryNotEmpty" ELSE "NotADirectory")
                    /\ UNCHANGED << store, temps, committed >>
        /\ UNCHANGED next_temp

\* `std::fs::remove_file(temp_path)?` of the downloaded archive.
RemoveFile ==
    \E build \in Builds :
        /\ At(build, "remove_file")
        /\ temps' = Without(temps, builds[build].temp_path[1])
        /\ Goto(build, "metadata")
        /\ UNCHANGED << store, next_temp, committed >>

\* `src_path.metadata()?.len()` for the lock entry.
Metadata ==
    \E build \in Builds :
        /\ At(build, "metadata")
        /\ IF has_resource(store, builds[build].hash[1])
           THEN Goto(build, "locked")
           ELSE IoError(build, "NotFound")
        /\ UNCHANGED << store, temps, next_temp, committed >>

not_shared == << manifests, root_packages, store0, packages, lock_resources,
                 lock_root, requested_urls, resources_indexes, assigned_hashes,
                 assign_references, packages_download_tasks, resources,
                 resources_download_tasks, downloads, pc, result, validated,
                 run, first, engine, sync, network, conversion, extraction >>

NextShared ==
    \/ Download /\ UNCHANGED not_shared
    \/ Extract /\ UNCHANGED not_shared
    \/ HashEntry /\ UNCHANGED not_shared
    \/ Exists /\ UNCHANGED not_shared
    \/ RemoveDirAll /\ UNCHANGED not_shared
    \/ Rename /\ UNCHANGED not_shared
    \/ RemoveFile /\ UNCHANGED not_shared
    \/ Metadata /\ UNCHANGED not_shared

InitShared ==
    /\ manifests = CHOOSE m \in Manifests : TRUE
    /\ root_packages = {}
    /\ store0 \in SharedStores
    /\ store = store0
    /\ temps = EmptyMap
    /\ BuilderReset
    /\ pc = "shared"
    /\ result = NoResult
    /\ validated = None
    /\ run = 1
    /\ first = NoResult
    /\ EngineIdle
    /\ SyncIdle
    /\ NetworkIdle
    /\ ConversionIdle
    /\ ExtractionIdle
    /\ builds \in [Builds -> { BuildOf(resource) : resource \in SharedResources }]
    /\ committed = [build \in Builds |-> {}]

SpecShared == InitShared /\ [][NextShared]_vars

(***************************************************************************)
(* Claims about builds sharing a store                                     *)
(***************************************************************************)
\* C20: two builds working on one store never collide: neither build fails
\* because of the other, and every entry one of them has committed is still
\* in the store, with the content it was committed with.
C20_BuildsNeverCollide ==
    \A build \in Builds :
        /\ ~At(build, "failed")
        /\ \A hash \in committed[build] :
               has_resource(store, hash) /\ for_entry(store[hash]) = hash

\* C21: an entry a build has committed to the store stays there untouched:
\* no later step of a build removes it, replaces it or modifies it, so every
\* committed hash still names an entry of the store with that hash.
C21_CommittedIsReadOnly ==
    \A build \in DOMAIN committed :
        \A hash \in committed[build] : Intact(store, hash)

(***************************************************************************)
(* Downloader::download_with_options: the spawned task, the caller that    *)
(* aborts it, and the script thread inside downloader.wait.  Lengths are   *)
(* counted in bytes; the content of the bytes plays no part.               *)
(***************************************************************************)
MaxFileLen == 2

MaxChunks == 2

MaxChunkLen == 2

\* The capacity of the BufWriter put on the output file, scaled down.
BufCapacity == 2

\* The value of a header that is read as a number: text that `parse::<u64>`
\* rejects, or a number.
Unparsable == [parses |-> FALSE, value |-> 0]

Number(n) == [parses |-> TRUE, value |-> n]

\* A header the response does not carry.
Absent == [present |-> FALSE]

Header(v) == [present |-> TRUE, v |-> v]

\* The bodies a server streams, as the lengths of the chunks it sends.
Bodies == UNION { [1 .. n -> 1 .. MaxChunkLen] : n \in 0 .. MaxChunks }

BodyLen[body \in Bodies] ==
    IF body = << >> THEN 0 ELSE Head(body) + BodyLen[Tail(body)]

\* `Content-Range: <unit> <range>/<size>`
ContentRange(unit, range, size) == [unit |-> unit, range |-> range, size |-> size]

\* The answers to `GET` with `Range: bytes=<downloaded>-`: any status, any
\* body, and headers that are missing, malformed, right or off by one.
Responses(downloaded) ==
    { [status         |-> status,
       content_length |-> content_length,
       content_range  |-> content_range,
       body           |-> body] :
         status \in { 200, 206, 416 },
         body \in Bodies,
         content_length \in { Absent } \cup
             { Header(v) : v \in { Unparsable, Number(0), Number(1) } },
         content_range \in { Absent, Header(ContentRange("items", "0-1", Number(0))) }
             \cup { Header(ContentRange("bytes", range, size)) :
                        range \in { "*", "0-1" },
                        size \in { Unparsable, Number(0), Number(1) } } }

\* The numbers in the headers are relative to what an honest server would
\* send: 0 stands for the right value and 1 for one byte more.
ContentLength(r) == BodyLen[r.body] + r.content_length.v.value

RangeSize(r, downloaded) == downloaded + BodyLen[r.body] + r.content_range.v.size.value

Pending == [ok |-> FALSE, error |-> "pending"]

\* The task has returned or was cancelled: `task.is_finished()`.
is_finished == download_task.at \in { "finished", "cancelled" }

Return(value) ==
    download_task' = [download_task EXCEPT !.at = "finished", !.result = value]

\* File::options()...open(), metadata().len(), current.store, seek.
TaskOpen ==
    /\ download_task.at = "open"
    /\ LET downloaded == IF download_options.continue_download
                         THEN output_file.len ELSE 0
       IN  /\ output_file' = [output_file EXCEPT !.exists = TRUE, !.len = downloaded]
           /\ current' = downloaded
           /\ download_task' = [download_task EXCEPT !.at = "request",
                                                     !.downloaded = downloaded]
    /\ UNCHANGED << download_options, total, aborted, response, waiter >>

\* What `total` holds once the `Content-Length` header was looked at.
AfterContentLength(r, downloaded) ==
    IF r.content_length.present /\ r.content_length.v.parses
    THEN downloaded + ContentLength(r)
    ELSE total

\* The header says `bytes */<size>`: the download is complete.
RangeIsComplete_Never(r) == FALSE

RangeIsComplete(r) ==
    /\ r.content_range.present
    /\ r.content_range.v.unit = "bytes"
    /\ r.content_range.v.range = "*"

\* What `total` holds once the `Content-Range` header was looked at.
AfterContentRange(r, downloaded) ==
    IF /\ r.content_range.present
       /\ r.content_range.v.unit = "bytes"
       /\ r.content_range.v.size.parses
    THEN RangeSize(r, downloaded)
    ELSE AfterContentLength(r, downloaded)

\* client.execute(request) and the reading of the status and the headers.
TaskRequest ==
    /\ download_task.at = "request"
    /\ \/ /\ Return(Err("Reqwest"))
          /\ UNCHANGED << total, response >>
       \/ \E r \in Responses(download_task.downloaded) :
            LET downloaded == download_task.downloaded
            IN  /\ response' = r
                /\ IF r.status = 416 \/ RangeIsComplete(r)
                   THEN /\ total' = downloaded
                        /\ Return(Ok(downloaded))
                   ELSE /\ total' = AfterContentRange(r, downloaded)
                        /\ download_task' = [download_task EXCEPT !.at = "chunk",
                                                                  !.body = r.body]
    /\ UNCHANGED << download_options, output_file, current, aborted, waiter >>

\* The BufWriter is dropped without a flush: what it holds is lost.
Dropped(file) == [file EXCEPT !.buffered = 0]

\* response.chunk(): the next chunk, the end of the body, or a read failure,
\* which `?` returns from the task.
TaskChunk ==
    /\ download_task.at = "chunk"
    /\ IF download_task.body = << >>
       THEN /\ download_task' = [download_task EXCEPT !.at = "flush"]
            /\ UNCHANGED output_file
       ELSE \/ /\ download_task' = [download_task EXCEPT
                                       !.at = "write",
                                       !.chunk = Head(download_task.body),
                                       !.body = Tail(download_task.body),
                                       !.received = @ + Head(download_task.body)]
               /\ UNCHANGED output_file
            \/ /\ Return(Err("Reqwest"))
               /\ output_file' = Dropped(output_file)
    /\ UNCHANGED << download_options, current, total, aborted, response, waiter >>

\* BufWriter::flush: the buffered bytes go to the file.
Flushed_Dropped(file) == [file EXCEPT !.buffered = 0]

Flushed(file) ==
    [file EXCEPT !.len = @ + file.buffered,
                 !.written = @ + file.buffered,
                 !.buffered = 0]

\* BufWriter::write_all: a chunk that does not fit is preceded by a flush, a
\* chunk as large as the buffer goes to the file directly.
write_all(file, len) ==
    LET room == IF file.buffered + len > BufCapacity THEN Flushed(file) ELSE file
    IN  IF len >= BufCapacity
        THEN [room EXCEPT !.len = @ + len, !.written = @ + len]
        ELSE [room EXCEPT !.buffered = @ + len]

\* The body of the `while let Some(chunk)` loop up to the abort check.
TaskWrite ==
    /\ download_task.at = "write"
    /\ output_file' = write_all(output_file, download_task.chunk)
    /\ current' = current + download_task.chunk
    /\ download_task' = [download_task EXCEPT
                            !.at = IF aborted THEN "flush_aborted" ELSE "chunk"]
    /\ UNCHANGED << download_options, total, aborted, response, waiter >>

\* output_file.flush() and the return of `total`, after the loop or after
\* the abort flag was seen.
TaskFlush ==
    /\ download_task.at \in { "flush", "flush_aborted" }
    /\ output_file' = Flushed(output_file)
    /\ Return(Ok(total))
    /\ UNCHANGED << download_options, current, total, aborted, response, waiter >>

\* JoinHandle::abort takes effect: the future is dropped where it waits.  The
\* BufWriter is dropped with what it holds, except in a flush, which has
\* handed the bytes to the file already.
TaskCancel ==
    /\ download_task.cancel
    /\ ~is_finished
    /\ output_file' = IF download_task.at \in { "flush", "flush_aborted" }
                      THEN Flushed(output_file)
                      ELSE Dropped(output_file)
    /\ download_task' = [download_task EXCEPT !.at = "cancelled",
                                              !.result = Err("RuntimeJoin")]
    /\ UNCHANGED << download_options, current, total, aborted, response, waiter >>

\* DownloaderTask::abort, first statement: `self.aborted.store(true)`.  The
\* script's downloader.abort has removed the handle before.
AbortFlag ==
    /\ waiter.at = "idle"
    /\ aborted' = TRUE
    /\ waiter' = [waiter EXCEPT !.at = "abort"]
    /\ UNCHANGED << download_options, output_file, current, total, download_task,
                    response >>

\* DownloaderTask::abort, second statement: `self.task.abort()`.
AbortTask ==
    /\ waiter.at = "abort"
    /\ download_task' = [download_task EXCEPT !.cancel = ~is_finished]
    /\ waiter' = [waiter EXCEPT !.at = "aborted"]
    /\ UNCHANGED << download_options, output_file, current, total, aborted,
                    response >>

\* downloader.wait: the handle is removed and the polling loop entered.
WaitStart ==
    /\ waiter.at = "idle"
    /\ waiter' = [waiter EXCEPT !.at = "poll"]
    /\ UNCHANGED << download_options, output_file, current, total, aborted,
                    download_task, response >>

\* One turn of `while !task.is_finished()`: on_update is called, and may
\* raise.
WaitPoll ==
    /\ waiter.at = "poll"
    /\ ~is_finished
    /\ \/ waiter' = [waiter EXCEPT !.updates = TRUE]
       \/ /\ download_options.on_update
          /\ waiter' = [waiter EXCEPT !.at = "raised", !.error = "on_update"]
    /\ UNCHANGED << download_options, output_file, current, total, aborted,
                    download_task, response >>

\* The loop is left: block_on(task.wait()), on_finish, `Ok(result)`.
WaitReturn ==
    /\ waiter.at = "poll"
    /\ is_finished
    /\ IF ~download_task.result.ok
       THEN waiter' = [waiter EXCEPT !.at = "raised",
                                     !.error = download_task.result.error]
       ELSE \/ waiter' = [waiter EXCEPT !.at = "returned",
                                        !.value = download_task.result.value,
                                        !.finish_fired = download_options.on_finish]
            \/ /\ download_options.on_finish
               /\ waiter' = [waiter EXCEPT !.at = "raised", !.error = "on_finish",
                                           !.finish_fired = TRUE]
    /\ UNCHANGED << download_options, output_file, current, total, aborted,
                    download_task, response >>

not_network == << resolver, engine, sync, concurrent, conversion, extraction >>

NextDownload ==
    \/ TaskOpen /\ UNCHANGED not_network
    \/ TaskRequest /\ UNCHANGED not_network
    \/ TaskChunk /\ UNCHANGED not_network
    \/ TaskWrite /\ UNCHANGED not_network
    \/ TaskFlush /\ UNCHANGED not_network
    \/ TaskCancel /\ UNCHANGED not_network
    \/ AbortFlag /\ UNCHANGED not_network
    \/ AbortTask /\ UNCHANGED not_network
    \/ WaitStart /\ UNCHANGED not_network
    \/ WaitPoll /\ UNCHANGED not_network
    \/ WaitReturn /\ UNCHANGED not_network

\* A download was started on a file that is missing or holds some bytes.
InitDownload ==
    /\ ResolverIdle
    /\ pc = "download"
    /\ EngineIdle
    /\ SyncIdle
    /\ ConcurrentIdle
    /\ ConversionIdle
    /\ ExtractionIdle
    /\ download_options \in [continue_download : BOOLEAN, on_update : BOOLEAN,
                             on_finish : BOOLEAN]
    /\ output_file \in { [exists |-> len > 0 \/ exists, len |-> len, initial |-> len,
                          buffered |-> 0, written |-> 0] :
                            len \in 0 .. MaxFileLen, exists \in BOOLEAN }
    /\ current = 0
    /\ total = 0
    /\ aborted = FALSE
    /\ download_task = [at |-> "open", result |-> Pending, downloaded |-> 0,
                        body |-> << >>, chunk |-> 0, received |-> 0,
                        cancel |-> FALSE]
    /\ response = << >>
    /\ waiter = [at |-> "idle", value |-> 0, error |-> "", updates |-> FALSE,
                 finish_fired |-> FALSE]

SpecDownload == InitDownload /\ [][NextDownload]_vars

(***************************************************************************)
(* Claims about downloads                                                  *)
(***************************************************************************)
\* Every byte the task has received is in the output file, none is left in
\* the buffer.
AllBytesOnDisk ==
    /\ output_file.buffered = 0
    /\ output_file.len = download_task.downloaded + download_task.received

\* C22: the script's downloader.wait returns only after the download task has
\* ended, every byte it received is flushed to the output file, and the
\* on_finish callback of the script, when it gave one, has fired.
C22_WaitReturnsAfterFlush ==
    waiter.at = "returned"
        => /\ download_task.at = "finished"
           /\ AllBytesOnDisk
           /\ download_options.on_finish => waiter.finish_fired

\* wait has returned from a download that left bytes in the buffer up to the
\* final flush, with an on_finish callback.
C22_Witness ==
    /\ waiter.at = "returned"
    /\ download_options.on_finish
    /\ download_task.received = 1
    /\ output_file.written = 1

\* The task ended because of the abort: it was cancelled, or it saw the flag
\* and returned with a part of the body still to come.
StoppedByAbort ==
    \/ download_task.at = "cancelled"
    \/ /\ download_task.at = "finished"
       /\ download_task.result.ok
       /\ download_task.body # << >>

\* C23: once an aborted download has ended, every byte counted in `current`
\* is in the output file.
C23_AbortFlushes ==
    StoppedByAbort => current <= output_file.len

\* C24: a resumed download answered with 416, or with `Content-Range:
\* bytes */<size>`, ends with total = current = the local file size and
\* writes nothing to the output file.
C24_CompleteWritesNothing ==
    /\ download_options.continue_download
    /\ response # << >>
    /\ \/ response.status = 416
       \/ /\ response.content_range.present
          /\ response.content_range.v.unit = "bytes"
          /\ response.content_range.v.range = "*"
    => /\ download_task.at = "finished"
       /\ download_task.result = Ok(output_file.initial)
       /\ total = output_file.initial
       /\ current = output_file.initial
       /\ output_file.written = 0
       /\ output_file.len = output_file.initial

\* A resumed download of a file that holds bytes was answered `bytes */<size>`
\* with a status other than 416 and a body, after a Content-Length header.
C24_Witness ==
    /\ download_options.continue_download
    /\ output_file.initial = MaxFileLen
    /\ response # << >>
    /\ response.status = 206
    /\ response.content_range.present
    /\ response.content_range.v.range = "*"
    /\ download_task.at = "finished"
    /\ response.content_length.present
    /\ response.body # << >>

\* C25: DownloaderTask::wait on a download that completed without being
\* aborted returns the number of bytes in the output file.
C25_WaitReturnsFileLength ==
    download_task.at = "finished" /\ download_task.result.ok /\ ~aborted
        => download_task.result.value = output_file.len

(***************************************************************************)
(* normalize_url applied to a URL, and to its own result                   *)
(***************************************************************************)
MaxUrlLen == 5

\* The URL strings handed to normalize_url: a name, the separators and the
\* dot segments, in any order.
UrlTokens == { "h", "/", "\\", ".", "..", ":" }

Urls == UNION { [1 .. n -> UrlTokens] : n \in 0 .. MaxUrlLen }

NormalizeUrl ==
    /\ pc = "normalize"
    /\ value_mid = None
    /\ value_mid' = Some(normalize_url(value_in))
    /\ UNCHANGED << value_in, value_out >>

NormalizeUrlAgain ==
    /\ pc = "normalize"
    /\ value_mid # None
    /\ value_out = None
    /\ value_out' = Some(normalize_url(value_mid[1]))
    /\ UNCHANGED << value_in, value_mid >>

not_conversion == << resolver, engine, sync, concurrent, network, extraction >>

NextNormalize ==
    \/ NormalizeUrl /\ UNCHANGED not_conversion
    \/ NormalizeUrlAgain /\ UNCHANGED not_conversion

InitNormalize ==
    /\ ResolverIdle
    /\ pc = "normalize"
    /\ EngineIdle
    /\ SyncIdle
    /\ ConcurrentIdle
    /\ NetworkIdle
    /\ ExtractionIdle
    /\ value_in \in Urls
    /\ value_mid = None
    /\ value_out = None

SpecNormalize == InitNormalize /\ [][NextNormalize]_vars

\* C26: normalizing a normalized URL changes nothing:
\* normalize_url(normalize_url(u)) = normalize_url(u) for every URL u.
C26_NormalizeIsIdempotent ==
    value_out # None => value_out = value_mid

(***************************************************************************)
(* Claims about the root of the lock file                                  *)
(***************************************************************************)
RootIsASet == NoDuplicates(result.lock.lock.root)

\* C27, as stated: in every lock file build returns, root is non-empty and
\* holds no id twice.
C27_RootNonEmptyNoDuplicates ==
    Returned => result.lock.lock.root # << >> /\ RootIsASet

\* C27, amended: in every lock file build returns for a non-empty set of
\* root packages, root is non-empty and holds no id twice.
C27_RootNonEmptyForRoots ==
    Returned /\ root_packages # {}
        => result.lock.lock.root # << >> /\ RootIsASet

\* build returned for two root URLs that name one package: root holds its id
\* once.
C27_Witness ==
    /\ Returned
    /\ root_packages = { UrlA, UrlAJson }
    /\ Len(result.lock.lock.root) = 1

\* C28: build with no root package downloads nothing and returns the lock
\* file with empty root and empty resources, and validate answers true for it.
C28_EmptyRootsEmptyLock ==
    root_packages = {}
        => /\ downloads = << >>
           /\ pc # "failed"
           /\ Returned => result.lock = LockFile(<< >>, << >>)
           /\ validated # None => validated[1].answer

\* The lock file of the empty root set was returned and validated against a
\* store that holds entries.
C28_Witness ==
    /\ root_packages = {}
    /\ Returned
    /\ validated # None
    /\ store # EmptyMap

(***************************************************************************)
(* TOML values, and the conversions of the fields the tables hold.  The    *)
(* integer widths are scaled down: TwoTo32 stands for 2^32, TwoTo64 for    *)
(* 2^64, and a hash is two base32 digits wide.                             *)
(***************************************************************************)
TomlInteger(n) == [type |-> "integer", v |-> n]
TomlString(str) == [type |-> "string", v |-> str]
TomlArray(array) == [type |-> "array", v |-> array]
TomlTable(table) == [type |-> "table", v |-> table]

\* table.get(key).and_then(Toml::as_<type>)
Get(table, key, type) ==
    IF key \in DOMAIN table /\ table[key].type = type
    THEN Some(table[key].v) ELSE None

\* ResourceFormat, with `Display` and `FromStr` on it.
Format(primary, secondary) == [primary |-> primary, secondary |-> secondary]

ResourceFormats ==
    { Format("file", ""), Format("package", "") }
    \cup { Format("module", m) : m \in { "auto", "luau" } }
    \cup { Format("archive", a) : a \in { "auto", "tar", "zip", "7z" } }

to_string(format) ==
    IF format.secondary = ""
    THEN << format.primary >>
    ELSE << format.primary, "/", format.secondary >>

\* s.split_once('/').unwrap_or((s, "auto"))
SplitFormat(str) ==
    IF \E i \in 1 .. Len(str) : str[i] = "/"
    THEN LET at == CHOOSE i \in 1 .. Len(str) :
                      str[i] = "/" /\ \A j \in 1 .. (i - 1) : str[j] # "/"
         IN  << SubSeq(str, 1, at - 1), SubSeq(str, at + 1, Len(str)) >>
    ELSE << str, << "auto" >> >>

ModuleFormatFromStr(str) ==
    IF str = << "auto" >> THEN Some("auto")
    ELSE IF str \in { << "luau" >>, << "lua" >> } THEN Some("luau")
    ELSE None

ArchiveFormatFromStr(str) ==
    IF str \in { << "auto" >>, << "tar" >>, << "zip" >> } THEN Some(str[1])
    ELSE IF str \in { << "7z" >>, << "sevenz" >> } THEN Some("7z")
    ELSE None

from_str(str) ==
    LET primary   == SplitFormat(str)[1]
        secondary == SplitFormat(str)[2]
        sub       == IF primary = << "module" >> THEN ModuleFormatFromStr(secondary)
                     ELSE ArchiveFormatFromStr(secondary)
    IN  IF primary \in { << "file" >>, << "package" >> }
        THEN Ok(Format(primary[1], ""))
        ELSE IF primary \in { << "module" >>, << "archive" >> }
        THEN IF sub = None THEN Err("ResourceUnknownFormat")
             ELSE Ok(Format(primary[1], sub[1]))
        ELSE Err("ResourceUnknownFormat")

(***************************************************************************)
(* From<&LockFile> for TomlTable and TryFrom<&TomlTable> for LockFile      *)
(***************************************************************************)
MaxEncoded == 2

\* name => id as a table of integers.
EncodeIds(ids) == [name \in DOMAIN ids |-> TomlInteger(as_i64(ids[name]))]

EncodeResourceLock(resource) ==
    LET lock == ("hash" :> TomlString(to_base32(resource.lock.hash)))
                @@ ("size" :> TomlInteger(as_i64(resource.lock.size)))
        inputs  == IF resource.inputs = None THEN EmptyMap
                   ELSE "inputs" :> TomlTable(EncodeIds(resource.inputs[1]))
        outputs == IF resource.outputs = None THEN EmptyMap
                   ELSE "outputs" :> TomlTable(EncodeIds(resource.outputs[1]))
    IN  ("url" :> TomlString(resource.url))
        @@ ("format" :> TomlString(to_string(resource.format)))
        @@ ("lock" :> TomlTable(lock))
        @@ inputs @@ outputs

EncodeLockFile(lock_file) ==
    LET root      == lock_file.lock.root
        lock_info == ("format" :> TomlInteger(1))
                     @@ ("root" :> TomlArray([i \in 1 .. Len(root) |->
                                                 TomlInteger(as_i64(root[i]))]))
    IN  ("lock" :> TomlTable(lock_info))
        @@ ("resources" :> TomlArray([i \in 1 .. Len(lock_file.resources) |->
                              TomlTable(EncodeResourceLock(lock_file.resources[i]))]))

\* The first error of a sequence of results, or the sequence of their values.
Collect(results) ==
    IF \E i \in 1 .. Len(results) : ~results[i].ok
    THEN results[CHOOSE i \in 1 .. Len(results) :
                    ~results[i].ok /\ \A j \in 1 .. (i - 1) : results[j].ok]
    ELSE Ok([i \in 1 .. Len(results) |-> results[i].value])

\* The `inputs` or `outputs` of a resource: absent, or every id an integer.
DecodeIds_Dropped(table, field) == Ok(None)

DecodeIds(table, field) ==
    LET ids == Get(table, field, "table")
    IN  IF ids = None THEN Ok(None)
        ELSE IF \E name \in DOMAIN ids[1] : ids[1][name].type # "integer"
        THEN Err(field)
        ELSE Ok(Some([name \in DOMAIN ids[1] |-> as_u32(ids[1][name].v)]))

parse_resource(table) ==
    LET url     == Get(table, "url", "string")
        format  == Get(table, "format", "string")
        lock    == Get(table, "lock", "table")
        hash    == Get(lock[1], "hash", "string")
        size    == Get(lock[1], "size", "integer")
        inputs  == DecodeIds(table, "inputs")
        outputs == DecodeIds(table, "outputs")
    IN  IF url = None THEN Err("<resource>.url")
        ELSE IF format = None THEN Err("<resource>.format")
        ELSE IF ~from_str(format[1]).ok THEN from_str(format[1])
        ELSE IF lock = None THEN Err("<resource>.lock")
        ELSE IF hash = None THEN Err("<resource>.lock.hash")
        ELSE IF from_base32(hash[1]) = None THEN Err("<resource>.lock.hash")
        ELSE IF size = None THEN Err("<resource>.lock.size")
        ELSE IF ~inputs.ok THEN inputs
        ELSE IF ~outputs.ok THEN outputs
        ELSE Ok([url     |-> url[1],
                 format  |-> from_str(format[1]).value,
                 lock    |-> [hash |-> from_base32(hash[1])[1],
                              size |-> as_u64(size[1])],
                 inputs  |-> inputs.value,
                 outputs |-> outputs.value])

DecodeLockFile(value) ==
    LET lock      == Get(value, "lock", "table")
        format    == Get(lock[1], "format", "integer")
        root      == Get(lock[1], "root", "array")
        locks == Get(value, "resources", "array")
        parsed    == Collect([i \in 1 .. Len(locks[1]) |->
                                 IF locks[1][i].type = "table"
                                 THEN parse_resource(locks[1][i].v)
                                 ELSE Err("resources[]")])
    IN  IF lock = None THEN Err("lock")
        ELSE IF format = None THEN Err("lock.format")
        ELSE IF root = None THEN Err("lock.root")
        ELSE IF \E i \in 1 .. Len(root[1]) : root[1][i].type # "integer"
        THEN Err("lock.root")
        ELSE IF locks = None THEN Err("resources")
        ELSE IF ~parsed.ok THEN parsed
        ELSE IF as_u16(format[1]) # 1 THEN Err("InvalidFormatVersion")
        ELSE Ok(LockFile([i \in 1 .. Len(root[1]) |-> as_u32(root[1][i].v)],
                         parsed.value))

\* The lock files handed to the encoder: every format, hashes and sizes up
\* to the largest, ids up to the largest, references missing, empty or not.
IdMaps ==
    { None, Some(EmptyMap), Some("a" :> 0),
      Some(("a" :> 1) @@ ("b" :> (TwoTo32 - 1))) }

BaseLock ==
    [url |-> UrlF, format |-> Format("file", ""), lock |-> [hash |-> 0, size |-> 0],
     inputs |-> None, outputs |-> None]

ResourceLocks ==
    { [BaseLock EXCEPT !.format = format] : format \in ResourceFormats }
    \cup { [BaseLock EXCEPT !.lock = [hash |-> hash, size |-> size]] :
              hash \in { 1, Len(Alphabet) * Len(Alphabet) - 1 },
              size \in { 1, TwoTo64 \div 2, TwoTo64 - 1 } }
    \cup { [BaseLock EXCEPT !.url = UrlA, !.format = Format("package", ""),
                            !.inputs = inputs, !.outputs = outputs] :
              inputs \in IdMaps, outputs \in IdMaps }

LockFiles ==
    { LockFile(root, locks) :
        root \in UNION { [1 .. n -> { 0, TwoTo32 - 1 }] : n \in 0 .. MaxEncoded },
        locks \in UNION { [1 .. n -> ResourceLocks] : n \in 0 .. MaxEncoded } }

EncodeLock ==
    /\ pc = "lock_file"
    /\ value_mid = None
    /\ value_mid' = Some(EncodeLockFile(value_in))
    /\ UNCHANGED << value_in, value_out >>

DecodeLock ==
    /\ pc = "lock_file"
    /\ value_mid # None
    /\ value_out = None
    /\ value_out' = Some(DecodeLockFile(value_mid[1]))
    /\ UNCHANGED << value_in, value_mid >>

NextLockFile ==
    \/ EncodeLock /\ UNCHANGED not_conversion
    \/ DecodeLock /\ UNCHANGED not_conversion

InitLockFile ==
    /\ ResolverIdle
    /\ pc = "lock_file"
    /\ EngineIdle
    /\ SyncIdle
    /\ ConcurrentIdle
    /\ NetworkIdle
    /\ ExtractionIdle
    /\ value_in \in LockFiles
    /\ value_mid = None
    /\ value_out = None

SpecLockFile == InitLockFile /\ [][NextLockFile]_vars

\* C29: a lock file encoded to its table and decoded back is the lock file
\* that was encoded, in root and in every field of every resource.
C29_LockFileRoundTrip ==
    value_out # None => value_out[1] = Ok(value_in)

\* A lock file with two roots and two resources, one of them a package with
\* references and one with the largest size, went through both conversions.
C29_Witness ==
    /\ value_out # None
    /\ Len(value_in.lock.root) = 2
    /\ Len(value_in.resources) = 2
    /\ value_in.resources[1].inputs \notin { None, Some(EmptyMap) }
    /\ value_in.resources[2].lock.size = TwoTo64 - 1

(***************************************************************************)
(* Lock documents of every format version                                  *)
(***************************************************************************)
\* The integers a document can hold in lock.format.
FormatIntegers == (0 - TwoTo64 \div 2) .. (TwoTo64 \div 2 - 1)

\* Lock files that decode when their format is 1.
SmallLockFiles ==
    { LockFile(root, locks) :
        root \in UNION { [1 .. n -> { 0, TwoTo32 - 1 }] : n \in 0 .. MaxEncoded },
        locks \in { << >>, << BaseLock >> } }

WithFormat(document, format) ==
    [document EXCEPT !["lock"].v["format"] = TomlInteger(format)]

\* A document whose lock.format is the integer `value_in`.
WriteDocument ==
    /\ pc = "lock_document"
    /\ value_mid = None
    /\ \E file \in SmallLockFiles :
          value_mid' = Some(WithFormat(EncodeLockFile(file), value_in))
    /\ UNCHANGED << value_in, value_out >>

DecodeDocument ==
    /\ pc = "lock_document"
    /\ value_mid # None
    /\ value_out = None
    /\ value_out' = Some(DecodeLockFile(value_mid[1]))
    /\ UNCHANGED << value_in, value_mid >>

NextLockDocument ==
    \/ WriteDocument /\ UNCHANGED not_conversion
    \/ DecodeDocument /\ UNCHANGED not_conversion

InitLockDocument ==
    /\ ResolverIdle
    /\ pc = "lock_document"
    /\ EngineIdle
    /\ SyncIdle
    /\ ConcurrentIdle
    /\ NetworkIdle
    /\ ExtractionIdle
    /\ value_in \in FormatIntegers
    /\ value_mid = None
    /\ value_out = None

SpecLockDocument == InitLockDocument /\ [][NextLockDocument]_vars

\* C31: a lock document whose lock.format is an integer other than 1 is
\* refused with the invalid-format-version error; no such integer is taken
\* for version 1.
C31_OnlyFormatOneDecodes ==
    (value_out # None /\ value_in # 1)
        => value_out[1] = Err("InvalidFormatVersion")

(***************************************************************************)
(* From<&PackageManifest> for TomlTable and TryFrom<&TomlTable> for        *)
(* PackageManifest                                                         *)
(***************************************************************************)
\* RuntimeInfo::is_empty
RuntimeIsEmpty(runtime) == runtime.minimal_version < 2

encode_resource(resource) ==
    ("uri" :> TomlString(resource.uri))
    @@ ("format" :> TomlString(to_string(resource.format)))
    @@ (IF resource.hash = None THEN EmptyMap
        ELSE "hash" :> TomlString(to_base32(resource.hash[1])))

EncodeResources(infos) ==
    [name \in DOMAIN infos |-> TomlTable(encode_resource(infos[name]))]

\* A key the table holds only when `present`.
Entry(present, key, value) == IF present THEN key :> value ELSE EmptyMap

EncodeManifest(value) ==
    LET authors == value.package.authors
        package == ("format" :> TomlInteger(1))
                   @@ Entry(value.package.description # None, "description",
                            TomlString(value.package.description[1]))
                   @@ Entry(authors # << >>, "authors",
                            TomlArray([i \in 1 .. Len(authors) |-> TomlString(authors[i])]))
        runtime == "minimal_version" :> TomlInteger(as_i64(value.runtime.minimal_version))
    IN  ("package" :> TomlTable(package))
        @@ Entry(~RuntimeIsEmpty(value.runtime), "runtime", TomlTable(runtime))
        @@ Entry(DOMAIN value.inputs # {}, "inputs", TomlTable(EncodeResources(value.inputs)))
        @@ Entry(DOMAIN value.outputs # {}, "outputs", TomlTable(EncodeResources(value.outputs)))

\* ResourceFormat::from_uri: the format the file name ends with; a URI
\* without a slash has the file name index.html.
from_uri(uri) ==
    LET named == \E i \in 1 .. Len(uri) - 1 : uri[i] = "/"
        ext   == uri[Len(uri)]
    IN  IF named /\ ext = "tar" THEN Format("archive", "tar")
        ELSE IF named /\ ext = "luau" THEN Format("module", "luau")
        ELSE Format("file", "")

\* The `hash` of a resource: absent, a base32 string or an integer.
DecodeHash(resource) ==
    IF "hash" \notin DOMAIN resource THEN Ok(None)
    ELSE IF resource["hash"].type = "string"
    THEN IF from_base32(resource["hash"].v) = None THEN Err("<resource>.hash")
         ELSE Ok(from_base32(resource["hash"].v))
    ELSE IF resource["hash"].type = "integer"
    THEN Ok(Some(as_u64(resource["hash"].v)))
    ELSE Err("<resource>.hash")

parse_info(resource) ==
    LET format == IF "format" \notin DOMAIN resource
                  THEN Ok(from_uri(resource["uri"].v))
                  ELSE IF resource["format"].type # "string"
                  THEN Err("<resource>.format")
                  ELSE from_str(resource["format"].v)
        hash   == DecodeHash(resource)
    IN  IF "uri" \notin DOMAIN resource THEN Err("ResourceMissingUri")
        ELSE IF resource["uri"].type # "string" THEN Err("<resource>.uri")
        ELSE IF ~format.ok THEN format
        ELSE IF ~hash.ok THEN hash
        ELSE Ok([uri |-> resource["uri"].v, format |-> format.value,
                 hash |-> hash.value])

\* One entry of `inputs` or `outputs`: a URI, or a table.
DecodeInfo(resource) ==
    IF resource.type = "string"
    THEN Ok([uri |-> resource.v, format |-> from_uri(resource.v), hash |-> None])
    ELSE IF resource.type = "table" THEN parse_info(resource.v)
    ELSE Err("inputs[]")

\* The `inputs` or `outputs` table: absent, or every entry a resource.
DecodeInfos(value, field) ==
    IF field \notin DOMAIN value THEN Ok(EmptyMap)
    ELSE IF value[field].type # "table" THEN Err(field)
    ELSE LET infos == value[field].v
         IN  IF \E name \in DOMAIN infos : ~DecodeInfo(infos[name]).ok
             THEN DecodeInfo(infos[CHOOSE name \in DOMAIN infos :
                                       ~DecodeInfo(infos[name]).ok])
             ELSE Ok([name \in DOMAIN infos |-> DecodeInfo(infos[name]).value])

\* `minimal_version`, 0 by default.
DecodeRuntime(value) ==
    IF "runtime" \notin DOMAIN value THEN Ok([minimal_version |-> 0])
    ELSE IF value["runtime"].type # "table" THEN Err("runtime")
    ELSE IF "minimal_version" \notin DOMAIN value["runtime"].v
    THEN Ok([minimal_version |-> 0])
    ELSE IF value["runtime"].v["minimal_version"].type # "integer"
    THEN Err("runtime.minimal_version")
    ELSE Ok([minimal_version |-> as_u32(value["runtime"].v["minimal_version"].v)])

DecodePackage(package) ==
    LET authors == package["authors"].v
    IN  IF "description" \in DOMAIN package /\ package["description"].type # "string"
        THEN Err("package.description")
        ELSE IF /\ "authors" \in DOMAIN package
                /\ \/ package["authors"].type # "array"
                   \/ \E i \in 1 .. Len(authors) : authors[i].type # "string"
        THEN Err("package.authors")
        ELSE Ok([description |-> IF "description" \in DOMAIN package
                                 THEN Some(package["description"].v) ELSE None,
                 authors     |-> IF "authors" \in DOMAIN package
                                 THEN [i \in 1 .. Len(authors) |-> authors[i].v]
                                 ELSE << >>])

DecodeManifest(value) ==
    LET package == Get(value, "package", "table")
        format  == Get(package[1], "format", "integer")
        info    == DecodePackage(package[1])
        runtime == DecodeRuntime(value)
        inputs  == DecodeInfos(value, "inputs")
        outputs == DecodeInfos(value, "outputs")
    IN  IF package = None THEN Err("package")
        ELSE IF format = None THEN Err("package.format")
        ELSE IF as_u16(format[1]) # 1 THEN Err("PackageUnknownFormatVersion")
        ELSE IF ~info.ok THEN info
        ELSE IF ~runtime.ok THEN runtime
        ELSE IF ~inputs.ok THEN inputs
        ELSE IF ~outputs.ok THEN outputs
        ELSE Ok([package |-> info.value, runtime |-> runtime.value,
                 inputs |-> inputs.value, outputs |-> outputs.value])

\* The manifests handed to the encoder.
ResourceInfos ==
    { [uri |-> uri, format |-> format, hash |-> hash] :
        uri \in { RelF, << "/", "x", ".", "tar" >> },
        format \in ResourceFormats,
        hash \in { None, Some(0), Some(Len(Alphabet) * Len(Alphabet) - 1) } }

InfoMaps == { EmptyMap } \cup { "a" :> info : info \in ResourceInfos }

PackageManifests ==
    { [package |-> [description |-> description, authors |-> authors],
       runtime |-> [minimal_version |-> minimal_version],
       inputs  |-> inputs,
       outputs |-> outputs] :
        description \in { None, Some(<< >>), Some(<< "d" >>) },
        authors \in UNION { [1 .. n -> { << "me" >> }] : n \in 0 .. MaxEncoded },
        minimal_version \in { 0, 1, 2, TwoTo32 - 1 },
        inputs \in InfoMaps,
        outputs \in { EmptyMap, "b" :> [uri |-> RelG, format |-> Format("archive", "auto"),
                                        hash |-> None] } }

EncodePackageManifest ==
    /\ pc = "manifest"
    /\ value_mid = None
    /\ value_mid' = Some(EncodeManifest(value_in))
    /\ UNCHANGED << value_in, value_out >>

DecodePackageManifest ==
    /\ pc = "manifest"
    /\ value_mid # None
    /\ value_out = None
    /\ value_out' = Some(DecodeManifest(value_mid[1]))
    /\ UNCHANGED << value_in, value_mid >>

NextManifest ==
    \/ EncodePackageManifest /\ UNCHANGED not_conversion
    \/ DecodePackageManifest /\ UNCHANGED not_conversion

InitManifest ==
    /\ ResolverIdle
    /\ pc = "manifest"
    /\ EngineIdle
    /\ SyncIdle
    /\ ConcurrentIdle
    /\ NetworkIdle
    /\ ExtractionIdle
    /\ value_in \in PackageManifests
    /\ value_mid = None
    /\ value_out = None

SpecManifest == InitManifest /\ [][NextManifest]_vars

\* C30: a package manifest encoded to its table and decoded back is the
\* manifest that was encoded, in every field, runtime.minimal_version
\* included, whatever its value.
C30_ManifestRoundTrip ==
    value_out # None => value_out[1] = Ok(value_in)

(***************************************************************************)
(* Claims about PackagesEngine::load_resource                              *)
(***************************************************************************)
\* C32: load_resource given the lock index of a loaded resource returns that
\* resource, and given the full base32 hash of a loaded resource it returns
\* a loaded resource whose hash contains the identifier, never none,
\* whatever the lock index of the resource.
C32_LoadResourceFindsLoaded ==
    last_call.fn = "load_resource" =>
        /\ last_call.result.ok
        /\ last_call.result.value # None
        /\ last_call.identifier = IndexText(last_call.key)
              => last_call.result.value[1] = last_call.key
        /\ last_call.identifier = TableHash(last_call.key)
              => Contains(TableHash(last_call.result.value[1]), last_call.identifier)

(***************************************************************************)
(* archive.extract: the worker thread of archive_extract, which runs       *)
(* tar::extract, zip::extract or sevenz::extract and waits for it, and the *)
(* loop of archive_extract that polls the channel.  The script passes a    *)
(* progress callback, and the callback does not fail.                      *)
(***************************************************************************)
MaxEntries == 3

MaxEntrySize == 2

\* The archives get_entries can list: the size of each file, in the order
\* the extracting tool prints the files.
Archives == UNION { [1 .. n -> 0 .. MaxEntrySize] : n \in 0 .. MaxEntries }

RECURSIVE Sum(_)
Sum(sizes) ==
    IF sizes = << >> THEN 0 ELSE sizes[1] + Sum(Tail(sizes))

\* What the worker hands to `progress` for a file of `size` bytes.
Progress(prev, size, sum) == [curr |-> prev + size, total |-> sum, diff |-> prev]

\* The worker reads the next line of the tool: current.fetch_add(size), then
\* progress(prev + size, total, prev), which sends the event.
WorkerLine ==
    /\ pc = "extract"
    /\ ~extract_worker.finished
    /\ extract_worker.line <= Len(archive_entries)
    /\ LET size  == archive_entries[extract_worker.line]
           prev  == extract_worker.current
           event == Progress(prev, size, Sum(archive_entries))
       IN  /\ extract_worker' = [extract_worker EXCEPT !.line = @ + 1,
                                                       !.current = prev + size]
           /\ progress_channel' = Append(progress_channel, event)
           /\ emitted' = Append(emitted, event)
    /\ UNCHANGED << archive_entries, extract_call >>

\* The tool printed its last line: wait returns and the thread ends.
WorkerExit ==
    /\ pc = "extract"
    /\ ~extract_worker.finished
    /\ extract_worker.line > Len(archive_entries)
    /\ extract_worker' = [extract_worker EXCEPT !.finished = TRUE]
    /\ UNCHANGED << archive_entries, progress_channel, emitted, extract_call >>

\* `while !handle.is_finished()`
ExtractCheck ==
    /\ pc = "extract"
    /\ extract_call.pc = "check"
    /\ extract_call' = [extract_call EXCEPT
                           !.pc = IF extract_worker.finished THEN "join" ELSE "drain"]
    /\ UNCHANGED << archive_entries, extract_worker, progress_channel, emitted >>

\* One step of `for (curr, total, diff) in recv.try_iter()`.
Drained(chan) == chan = << >>

ExtractDrain ==
    /\ pc = "extract"
    /\ extract_call.pc = "drain"
    /\ IF Drained(progress_channel)
       THEN /\ extract_call' = [extract_call EXCEPT !.pc = "check"]
            /\ UNCHANGED progress_channel
       ELSE LET event == Head(progress_channel)
            IN  /\ extract_call' =
                      [extract_call EXCEPT
                          !.finished = event.curr >= event.total,
                          !.called = Append(@, event)]
                /\ progress_channel' = Tail(progress_channel)
    /\ UNCHANGED << archive_entries, extract_worker, emitted >>

\* handle.join() and `Ok(finished)`
ExtractReturn ==
    /\ pc = "extract"
    /\ extract_call.pc = "join"
    /\ extract_call' = [extract_call EXCEPT !.pc = "returned",
                                            !.result = Ok(extract_call.finished)]
    /\ UNCHANGED << archive_entries, extract_worker, progress_channel, emitted >>

not_extraction == << resolver, engine, sync, concurrent, network, conversion >>

NextExtract ==
    \/ WorkerLine /\ UNCHANGED not_extraction
    \/ WorkerExit /\ UNCHANGED not_extraction
    \/ ExtractCheck /\ UNCHANGED not_extraction
    \/ ExtractDrain /\ UNCHANGED not_extraction
    \/ ExtractReturn /\ UNCHANGED not_extraction

InitExtract ==
    /\ ResolverIdle
    /\ pc = "extract"
    /\ EngineIdle
    /\ SyncIdle
    /\ ConcurrentIdle
    /\ NetworkIdle
    /\ ConversionIdle
    /\ archive_entries \in Archives
    /\ extract_worker = [line |-> 1, current |-> 0, finished |-> FALSE]
    /\ progress_channel = << >>
    /\ emitted = << >>
    /\ extract_call = [pc |-> "check", finished |-> FALSE, called |-> << >>,
                       result |-> Pending]

SpecExtract == InitExtract /\ [][NextExtract]_vars

\* C33: archive.extract on an archive without entries returns finished =
\* true and calls the progress callback zero times.
C33_EmptyArchiveFinished ==
    (extract_call.pc = "returned" /\ archive_entries = << >>)
        => /\ extract_call.result = Ok(TRUE)
           /\ extract_call.called = << >>

\* C34: the diff of every progress event is the number of bytes its step
\* added: its curr minus the curr of the event before it, 0 before the first.
C34_DiffIsBytesAdded ==
    \A i \in 1 .. Len(emitted) :
        emitted[i].diff = emitted[i].curr - (IF i = 1 THEN 0 ELSE emitted[i - 1].curr)

\* C39: when archive.extract returns it has called the progress callback
\* once for every event the worker emitted, in the order of emission, and
\* it returns true exactly when the last emitted event had curr >= total.
C39_EveryEventDelivered ==
    extract_call.pc = "returned" =>
        /\ extract_call.called = emitted
        /\ extract_call.result =
              Ok(/\ emitted # << >>
                 /\ emitted[Len(emitted)].curr >= emitted[Len(emitted)].total)

Exporters(key) ==
    { package \in ReachableFrom(Range(engine_lock_file.root)) :
        /\ LockedResource(package).format = "package"
        /\ key \in Range(OutputsOf(package)) }

\* C36: once the drain is over, every module that is an output of a package
\* reachable from the roots was instantiated with a package that outputs it
\* as its parent, also when the drain first reached it as an input.
C36_OutputModulesHaveParent ==
    engine_pc \in { "evaluate", "ready" } =>
        \A i \in 1 .. Len(evaluation_queue) :
            LET entry == evaluation_queue[i]
            IN  Exporters(entry.key) # {} =>
                    /\ entry.parent_context # None
                    /\ entry.parent_context[1] \in Exporters(entry.key)

\* The File and Archive inputs of package `parent`, by the lock file.
FileInputs(parent) ==
    LET inputs == InputsOf(parent)
    IN  [name \in { n \in DOMAIN inputs :
                      LockedResource(inputs[n]).format \in { "file", "archive/tar" } }
            |-> PathValue(inputs[name])]

\* C38: when the drain is about to build the context of a module whose
\* parent is package P, every input of P has its table in the engine; and
\* the input_resources of every module with a parent P are its own store
\* path and the store paths of the File and Archive inputs of P.
C38_ParentInputsAreIndexed ==
    /\ (engine_pc = "create" /\ engine_resources # << >>) =>
          LET top == engine_resources[Len(engine_resources)]
          IN  ( /\ ~AlreadyVisited(top[1])
                /\ IsModule(LockedResource(top[1]).format)
                /\ top[2] # None )
                  => \A input \in Range(InputsOf(top[2][1])) :
                        input \in DOMAIN resources_table \cup { top[1] }
    /\ \A i \in 1 .. Len(evaluation_queue) :
          LET entry == evaluation_queue[i]
          IN  entry.parent_context # None =>
                 entry.input_resources =
                     [own |-> PathValue(entry.key),
                      inputs |-> FileInputs(entry.parent_context[1])]

\* A module was instantiated with package 0 as its parent, and the file 4,
\* an input of that package, is among its input_resources.
C38_Witness ==
    \E i \in 1 .. Len(evaluation_queue) :
        /\ evaluation_queue[i].parent_context = Some(0)
        /\ evaluation_queue[i].input_resources.inputs = ("a" :> PathValue(4))

(***************************************************************************)
(* Context::is_accessible.  A path is the sequence of the names between    *)
(* its slashes, below the filesystem root; no name is a symlink.           *)
(***************************************************************************)
MaxPathLen == 4

PathNames == { "store", "m", "t", "f", "x", ".", ".." }

Paths == UNION { [1 .. n -> PathNames] : n \in 0 .. MaxPathLen }

\* The folders of the context of a module; create leaves ext_allowed_paths
\* empty.
ModuleContext ==
    [module_folder     |-> << "store", "m" >>,
     temp_folder       |-> << "store", "t" >>,
     persistent_folder |-> << "store", "p" >>,
     input_resources   |-> << << "store", "f" >> >>,
     ext_allowed_paths |-> << >>]

\* Path::components of an absolute path: `.` is dropped, `..` is kept.
RECURSIVE Components(_)
Components(path) ==
    IF path = << >> THEN << >>
    ELSE IF path[1] = "." THEN Components(Tail(path))
    ELSE << path[1] >> \o Components(Tail(path))

\* Path::starts_with: whole components are compared.
PathStartsWith(path, base) ==
    /\ Len(Components(base)) <= Len(Components(path))
    /\ SubSeq(Components(path), 1, Len(Components(base))) = Components(base)

is_accessible(context, path) ==
    LET allowed_paths == << context.module_folder, context.temp_folder,
                            context.persistent_folder >>
                         \o context.input_resources \o context.ext_allowed_paths
    IN  \E i \in 1 .. Len(allowed_paths) : PathStartsWith(path, allowed_paths[i])

\* The location a path denotes: `.` stays, `..` goes to the parent, and the
\* parent of the root is the root.
RECURSIVE Location(_)
Location(path) ==
    IF path = << >> THEN << >>
    ELSE LET parent == Location(SubSeq(path, 1, Len(path) - 1))
             name   == path[Len(path)]
         IN  IF name = "." THEN parent
             ELSE IF name = ".."
             THEN IF parent = << >> THEN << >>
                  ELSE SubSeq(parent, 1, Len(parent) - 1)
             ELSE Append(parent, name)

\* An API function checks the path it was given.
CheckAccessible ==
    /\ pc = "is_accessible"
    /\ value_out = None
    /\ value_out' = Some(is_accessible(ModuleContext, value_in))
    /\ UNCHANGED << value_in, value_mid >>

NextAccessible ==
    \/ CheckAccessible /\ UNCHANGED not_conversion

InitAccessible ==
    /\ ResolverIdle
    /\ pc = "is_accessible"
    /\ EngineIdle
    /\ SyncIdle
    /\ ConcurrentIdle
    /\ NetworkIdle
    /\ ExtractionIdle
    /\ value_in \in Paths
    /\ value_mid = None
    /\ value_out = None

SpecAccessible == InitAccessible /\ [][NextAccessible]_vars

\* The folders a module may touch.
AllowedRoots ==
    { ModuleContext.module_folder, ModuleContext.temp_folder,
      ModuleContext.persistent_folder }
    \cup Range(ModuleContext.input_resources)
    \cup Range(ModuleContext.ext_allowed_paths)

\* C37: a path is_accessible accepts denotes, once its `.` and `..` are
\* resolved, a location inside one of the allowed folders.
C37_AcceptedPathStaysInside ==
    value_out = Some(TRUE) =>
        \E root \in AllowedRoots :
            /\ Len(root) <= Len(Location(value_in))
            /\ SubSeq(Location(value_in), 1, Len(root)) = root

(***************************************************************************)
(* Claims about the temporary entries of a build                           *)
(***************************************************************************)
\* C40: when build returns successfully, every `<hash>.tmp` entry it created
\* in the store was renamed to a final path or removed: none remains.
C40_NoTempAfterSuccess ==
    (pc = "done" /\ result.kind = "ok") => temps = EmptyMap

\* A build that downloaded a manifest, a file and an archive has returned
\* its lock file.
C40_Witness ==
    /\ pc = "done"
    /\ result.kind = "ok"
    /\ \E i, j, k \in 1 .. Len(result.lock.resources) :
          /\ result.lock.resources[i].format = "package"
          /\ result.lock.resources[j].format = "file"
          /\ IsArchive(result.lock.resources[k].format)

====
